---- MODULE Spec2Model ----
(***************************************************************************)
(* The repository bootstrap/update protocol of src/public/install.py:      *)
(* _clone_repo and _update_code, run against a git working copy with       *)
(* submodules and against the remotes it was cloned from.                  *)
(*                                                                         *)
(* Every external command (_run_command) is one step.  The state of the    *)
(* world the commands act on is the state of the model: the remotes (the   *)
(* tip of each default branch), the network, and the working copy (HEAD    *)
(* and local default branch of the superproject and of each submodule,     *)
(* uncommitted modifications).  The remotes and the files of the working   *)
(* copy change between invocations (somebody pushes, somebody edits); the  *)
(* network may fail under any command that needs it.                       *)
(***************************************************************************)
EXTENDS Integers, Sequences, FiniteSets, TLC

\* ------------------------------------------------------------------ bounds

\* Commits of one repository are 1..MaxCommit; the parent of commit c is
\* c \div 2 (1 is the root commit).  With three commits, 2 and 3 are both
\* children of 1: "behind" (local 1, remote 2), "ahead" (local 2, remote 1)
\* and "diverged" (local 2, remote 3) all occur.
MaxCommit == 3

Commits == 1..MaxCommit

\* Commits of a submodule's repository are 1..MaxSubCommit, with the same
\* parent relation.
MaxSubCommit == 2

SubCommits == 1..MaxSubCommit

Parent(c) == c \div 2

\* a is b or an ancestor of b ("b can be reached from a by a fast-forward")
RECURSIVE Ancestor(_, _)
Ancestor(a, b) ==
    IF a = b THEN TRUE
    ELSE IF b <= 1 THEN FALSE
    ELSE Ancestor(a, Parent(b))

\* ------------------------------------------------------- the repositories

None == "None"

\* Version labels a caller may pass.  "0.5.53" is __version__ and is a tag
\* of every repository; "0.0.0" is a label no repository has.
Labels == {"0.5.53", "0.0.0"}

\* The commit a label resolves to in the superproject after `--tags` has
\* been fetched, 0 when the repository has no such ref.
TagCommit(label) == IF label = "0.5.53" THEN 2 ELSE 0

\* The commit a label resolves to in a submodule's repository.
SubTagCommit(label) == IF label = "0.5.53" THEN 1 ELSE 0

\* The submodule paths of the superproject, in the order of its index (the
\* order of `git submodule status` and of `git submodule foreach`).
SubOrder == <<"installer", "public">>

SubPaths == {SubOrder[i] : i \in 1..Len(SubOrder)}

\* The names the installer passes in submodule_versions, in dict order
\* ({"public": ..., "installer": ...}).
SubNames == <<"public", "installer">>

\* The commit of submodule path p that superproject commit c records.
Gitlink(c, p) ==
    IF p = "installer" THEN (c % MaxSubCommit) + 1
    ELSE ((c + 1) % MaxSubCommit) + 1

\* The path of the submodule that has a submodule of its own, and the path
\* of that nested submodule (`git submodule foreach --recursive` visits it
\* right after its parent, which is the last of SubOrder).
NestedParent == "public"

NestedPath == "public/installer"

\* The commit of the nested submodule that commit c of its parent records.
NestedGitlink(c) == (c % MaxSubCommit) + 1

\* The nested submodule is not cloned (or the repository has none).
NoNest == [init |-> FALSE, head |-> 0, branch |-> 0]

\* A name or path as its characters, for the regular-expression match of awk.
Chars(s) ==
    CASE s = "public" -> <<"p", "u", "b", "l", "i", "c">>
      [] s = "installer" -> <<"i", "n", "s", "t", "a", "l", "l", "e", "r">>
      [] s = "infra" -> <<"i", "n", "f", "r", "a">>
      [] s = "i" -> <<"i">>
      [] OTHER -> <<>>

\* awk's `$2 ~ /name/`: the name occurs somewhere in the path.
AwkMatch(name, path) ==
    LET n == Chars(name)
        p == Chars(path)
    IN  \E i \in 0..(Len(p) - Len(n)) : SubSeq(p, i + 1, i + Len(n)) = n

\* The lines `git submodule status | awk '$2 ~ /name/ {print $2}'` prints.
SubmodulePathsOf(name) == {p \in SubPaths : AwkMatch(name, p)}

\* ------------------------------------------------------------------ state

VARIABLES
    gitInstalled,   \* which("git") is not None
    rTip,           \* remote of the superproject: tip of the default branch
    sTip,           \* remote of each submodule: tip of its default branch
    nTip,           \* remote of the nested submodule (0: there is none)
    exists,         \* the target path exists
    origin,         \* what is at the target path, by the remote it was cloned from
    head,           \* superproject HEAD (0: no working copy)
    lBranch,        \* superproject local default branch
    dirty,          \* tracked files of the superproject are modified
    sInit,          \* the submodule is initialised and cloned
    sHead,          \* HEAD of each submodule
    sBranch,        \* local default branch of each submodule
    nest,           \* the nested submodule: cloned, HEAD, local default branch
    pc,             \* position in _clone_repo / _update_code
    version,        \* argument `version`
    subVersions,    \* argument `submodule_versions`, as its items in order
    pinIdx,         \* position of the loop of lines 713-719
    result,         \* how the last invocation ended
    entry,          \* the function the caller invoked
    existedAtStart, \* the target path existed when the invocation began
    dirtyAtStart,   \* tracked files were modified when the invocation began
    retry,          \* the invocation repeats one that created the target and failed
    trace,          \* the external commands this invocation has run
    last,           \* state left by the previous successful invocation
    streak          \* successive successful invocations with unchanged remotes

envVars == <<gitInstalled, rTip, sTip, nTip>>
wcVars == <<exists, origin, head, lBranch, dirty, sInit, sHead, sBranch, nest>>
argVars == <<version, subVersions, entry, existedAtStart, dirtyAtStart, retry>>
histVars == <<last, streak>>
syncVars == <<envVars, wcVars, argVars, histVars, pc, pinIdx, result, trace>>

\* The installer as a whole (_install and the functions it dispatches to).
VARIABLES
    settings,       \* _PublicInstallerSettings, as parsed
    ipc,            \* position in _install / _initial_install
    ires,           \* how _install ended
    events,         \* log lines written and commands started, in order
    environ,        \* os.environ
    todo            \* what is left of the body of the function that is running

instVars == <<settings, ipc, ires, events, environ, todo>>

\* Invocations of _clone_repo that run at the same time on one target.
VARIABLES
    procs,          \* each invocation: position, arguments, what it observed
    ctrace          \* the external commands started, in order, with who ran them

concVars == <<procs, ctrace>>

\* The settings (PUBLIC_SETTINGS of settings.py) as they are read.
VARIABLES
    lookup          \* the last attribute read or method called, and its value

setVars == <<lookup>>

\* The machine that setup-infra.py, setup-vm-using-python.py and
\* _setup_proxmox_sources of install.py work on.
VARIABLES
    host            \* its files, its commands, the commands run, the position

hostVars == <<host>>

otherVars == <<instVars, concVars, setVars, hostVars>>

vars == <<syncVars, otherVars>>

\* submodule_versions=None: the loop of lines 713-719 has no item.
NoMap == <<>>

\* Names a caller may pass that are not the name of one submodule: "i"
\* occurs in both paths, "infra" in none.
OddNames == {"i", "infra"}

\* The maps a caller may pass as submodule_versions: None, or one entry for
\* each name, a label or None; and maps whose first name does not resolve to
\* one path, before a name that does.
SubVersionMaps ==
    {NoMap} \cup
    {<<<<SubNames[1], a>>, <<SubNames[2], b>>>> :
        a \in Labels \cup {None}, b \in Labels \cup {None}} \cup
    {<<<<n, "0.5.53">>, <<SubNames[2], "0.5.53">>>> : n \in OddNames}

\* The items of submodule_versions that have a version (line 714).
Labelled(sv) == SelectSeq(sv, LAMBDA item : item[2] # None)

\* No successful invocation to compare with.
NoSnapshot ==
    [args |-> <<"none", None, NoMap>>, head |-> 0,
     sHead |-> [p \in SubPaths |-> 0]]

\* Before the first invocation: the remotes are somewhere, the target path
\* does not exist.
InitSync ==
    /\ gitInstalled \in BOOLEAN
    /\ rTip \in Commits
    /\ sTip \in [SubPaths -> SubCommits]
    /\ nest = NoNest
    /\ exists = FALSE
    /\ origin = "none"
    /\ head = 0
    /\ lBranch = 0
    /\ dirty = FALSE
    /\ sInit = [p \in SubPaths |-> FALSE]
    /\ sHead = [p \in SubPaths |-> 0]
    /\ sBranch = [p \in SubPaths |-> 0]
    /\ pc = "idle"
    /\ version = None
    /\ subVersions = NoMap
    /\ pinIdx = 1
    /\ result = "none"
    /\ entry = "none"
    /\ existedAtStart = FALSE
    /\ dirtyAtStart = FALSE
    /\ retry = FALSE
    /\ trace = <<>>
    /\ last = NoSnapshot
    /\ streak = 0

\* No invocations run at the same time.
ConcOff ==
    /\ procs = <<>>
    /\ ctrace = <<>>

\* Nothing has been read from the settings.
NoLookup ==
    [who |-> "none", fn |-> "none", name |-> <<>>, value |-> <<>>,
     err |-> "none"]

SetOff == lookup = NoLookup

\* No script is running on the machine.
NoHost == [who |-> "none"]

HostOff == host = NoHost

\* The installer is not running.
InstOff ==
    /\ settings = <<>>
    /\ ipc = "off"
    /\ ires = "none"
    /\ events = <<>>
    /\ environ = <<>>
    /\ todo = <<>>

\* The target is a repository whose submodules have no submodules.
Init ==
    /\ InitSync
    /\ nTip = 0
    /\ InstOff
    /\ ConcOff
    /\ SetOff
    /\ HostOff

\* ------------------------------------------------- how an invocation ends

\* Nothing is left to compare the next invocation with.
Forget ==
    /\ last' = NoSnapshot
    /\ streak' = 0

\* A command exited non-zero (check_output raises): the invocation is over.
Fail(err) ==
    /\ pc' = "idle"
    /\ result' = err
    /\ Forget

\* The caller has gone on: the invocation's arguments and record are gone.
Gone ==
    /\ version' = None
    /\ subVersions' = NoMap
    /\ entry' = "none"
    /\ existedAtStart' = FALSE
    /\ dirtyAtStart' = FALSE
    /\ retry' = FALSE
    /\ pinIdx' = 1
    /\ result' = "none"
    /\ trace' = <<>>

\* What a successful invocation leaves behind, with the arguments it had.
Snapshot(h, sh) ==
    [args |-> <<entry, version, subVersions>>, head |-> h, sHead |-> sh]

\* The invocation returns normally, leaving HEAD h and submodule HEADs sh.
Return(h, sh) ==
    /\ pc' = "idle"
    /\ result' = "ok"
    /\ IF streak > 0 /\ last.args = <<entry, version, subVersions>>
       THEN /\ last' = last
            /\ streak' = 2
       ELSE /\ last' = Snapshot(h, sh)
            /\ streak' = 1

\* The command `cmd` is handed to check_output.
Ran(cmd, arg) == trace' = Append(trace, [cmd |-> cmd, arg |-> arg])

\* A git command with cwd=target can run at all: git is on the PATH, the
\* working directory exists and is a git working copy.
GitRuns == gitInstalled /\ exists /\ origin # "nogit"

GitError ==
    IF ~gitInstalled THEN "ToolingUnavailable"
    ELSE IF ~exists THEN "FileNotFound"
    ELSE "NotARepository"

\* ------------------------------------------------------ the git commands

\* Pull as it would be without --ff-only: diverged histories are merged, and
\* the branch moves to the merge result (which contains `remote`).
PullMerging(local, remote, net) ==
    IF ~net
    THEN [ok |-> FALSE, branch |-> local, err |-> "NetworkFailure"]
    ELSE IF Ancestor(remote, local)
    THEN [ok |-> TRUE, branch |-> local, err |-> "none"]
    ELSE [ok |-> TRUE, branch |-> remote, err |-> "none"]

\* `git pull --ff-only --force --prune --tags` on a branch at commit `local`
\* whose upstream is at `remote`: fast-forward when local is behind, nothing
\* to do when the upstream is already contained in local, refusal otherwise.
\* `net`: the remote could be reached.
Pull(local, remote, net) ==
    IF ~net
    THEN [ok |-> FALSE, branch |-> local, err |-> "NetworkFailure"]
    ELSE IF Ancestor(local, remote)
    THEN [ok |-> TRUE, branch |-> remote, err |-> "none"]
    ELSE IF Ancestor(remote, local)
    THEN [ok |-> TRUE, branch |-> local, err |-> "none"]
    ELSE [ok |-> FALSE, branch |-> local, err |-> "DivergedHistory"]

\* The checkout as it would be without --force: a checkout of the branch
\* HEAD is on keeps the modifications.
PlainCheckoutDirty == dirty

\* `git checkout --force <default branch>`: HEAD moves to the local default
\* branch and the modifications of tracked files are thrown away.
ForceCheckoutDirty == FALSE

\* _update_code as it would be without line 707: no reset_pull in the
\* submodules, which stay where `git submodule update` left them.
ForeachNothing(i, sh, sb, down) ==
    [ok |-> TRUE, sHead |-> sh, sBranch |-> sb, err |-> "none"]

\* `git submodule foreach --recursive '<reset_pull>'` from submodule i of
\* the index on: reset_pull in each submodule, stopping at the first one in
\* which it fails.  `down`: the submodule at which the network fails, 0
\* when it does not.
RECURSIVE Foreach(_, _, _, _)
Foreach(i, sh, sb, down) ==
    IF i > Len(SubOrder)
    THEN [ok |-> TRUE, sHead |-> sh, sBranch |-> sb, err |-> "none"]
    ELSE LET p == SubOrder[i]
             o == Pull(sb[p], sTip[p], down # i)
         IN  IF o.ok
             THEN Foreach(i + 1, [sh EXCEPT ![p] = o.branch],
                                 [sb EXCEPT ![p] = o.branch], down)
             ELSE [ok |-> FALSE, sHead |-> [sh EXCEPT ![p] = sb[p]],
                   sBranch |-> sb, err |-> o.err]

\* ------------------------------------------------------------- the caller

\* The existence check as it would be if the clone were unconditional.
AlwaysClone == "clone"

\* The existence check as it would be if an existing target were only
\* pinned, not synchronised.
ExistingOnlyPinned == IF exists THEN "checkout_version" ELSE "clone"

\* Lines 498-503: where _clone_repo goes once git is there: to the clone
\* when the target does not exist, straight to _update_code when it does.
ExistenceCheck == IF exists THEN "reset_pull" ELSE "clone"

\* The caller calls _clone_repo(url, target, version=v,
\* submodule_versions=sv) again right after a call with the same arguments
\* that found no target, brought it into existence and then raised.
Reentry(v, sv) ==
    /\ entry = "clone_repo"
    /\ result \notin {"none", "ok"}
    /\ version = v
    /\ subVersions = sv
    /\ ~existedAtStart
    /\ exists

\* _clone_repo(url, target, version=v, submodule_versions=sv) is called:
\* lines 495-500 up to the first external command (which("git"), then
\* target.exists()).
CallCloneRepo(v, sv) ==
    /\ pc = "idle"
    /\ pc' = IF gitInstalled THEN ExistenceCheck ELSE "install_git"
    /\ version' = v
    /\ subVersions' = sv
    /\ entry' = "clone_repo"
    /\ existedAtStart' = exists
    /\ dirtyAtStart' = dirty
    /\ retry' = Reentry(v, sv)
    /\ pinIdx' = 1
    /\ result' = "none"
    /\ trace' = <<>>
    /\ IF streak > 0 /\ last.args = <<"clone_repo", v, sv>>
       THEN UNCHANGED histVars
       ELSE Forget
    /\ UNCHANGED <<envVars, wcVars>>
    /\ UNCHANGED otherVars

\* _update_code(cwd=target, version=v, submodule_versions=sv) is called
\* directly (_core_install, _infra_install).
CallUpdateCode(v, sv) ==
    /\ pc = "idle"
    /\ pc' = "reset_pull"
    /\ version' = v
    /\ subVersions' = sv
    /\ entry' = "update_code"
    /\ existedAtStart' = exists
    /\ dirtyAtStart' = dirty
    /\ retry' = FALSE
    /\ pinIdx' = 1
    /\ result' = "none"
    /\ trace' = <<>>
    /\ IF streak > 0 /\ last.args = <<"update_code", v, sv>>
       THEN UNCHANGED histVars
       ELSE Forget
    /\ UNCHANGED <<envVars, wcVars>>
    /\ UNCHANGED otherVars

\* ------------------------------------------------------------ _clone_repo

Min(a, b) == IF a < b THEN a ELSE b

\* The submodules of the target at every depth.
NumSubs == Len(SubOrder) + (IF nTip = 0 THEN 0 ELSE 1)

\* The nested submodule as a recursive clone or update leaves it when its
\* parent is at commit c: detached at the commit the parent records.
ClonedNest(c) ==
    [init |-> TRUE, head |-> NestedGitlink(c),
     branch |-> IF nest.init THEN nest.branch ELSE nTip]

\* Lines 496-497: git is missing, `apt -y update` and `apt install -y git`.
InstallGit ==
    /\ pc = "install_git"
    /\ Ran("apt", "git")
    /\ \/ /\ gitInstalled' = TRUE
          /\ pc' = ExistenceCheck
          /\ UNCHANGED <<result, histVars>>
       \/ /\ Fail("ToolingUnavailable")
          /\ UNCHANGED gitInstalled
    /\ UNCHANGED <<rTip, sTip, nTip, wcVars, argVars, pinIdx>>
    /\ UNCHANGED otherVars

\* Clone as it would be if line 504 were run only for a target that
\* already exists: a fresh clone returns without _update_code.
CloneOnly ==
    /\ pc = "clone"
    /\ Ran("clone", None)
    /\ \/ /\ Fail(IF exists THEN "ProcessFailure" ELSE "NetworkFailure")
          /\ UNCHANGED wcVars
       \/ /\ ~exists
          /\ \E k \in 0..NumSubs :
             LET done == {SubOrder[i] : i \in 1..Min(k, Len(SubOrder))}
                 cloned == [p \in SubPaths |->
                              IF p \in done THEN Gitlink(rTip, p) ELSE 0]
             IN  /\ exists' = TRUE
                 /\ origin' = "url"
                 /\ head' = rTip
                 /\ lBranch' = rTip
                 /\ dirty' = FALSE
                 /\ sInit' = [p \in SubPaths |-> p \in done]
                 /\ sBranch' = [p \in SubPaths |->
                                  IF p \in done THEN sTip[p] ELSE 0]
                 /\ sHead' = cloned
                 /\ nest' = IF k > Len(SubOrder)
                            THEN ClonedNest(cloned[NestedParent])
                            ELSE NoNest
                 /\ IF k = NumSubs
                    THEN Return(rTip, cloned)
                    ELSE Fail("NetworkFailure")
    /\ UNCHANGED <<envVars, argVars, pinIdx>>
    /\ UNCHANGED otherVars

\* Lines 501-503: `git clone --recurse-submodules url target`.  The clone
\* of the superproject either fails and leaves nothing, or succeeds; the
\* submodules are then cloned in index order, and the network may fail
\* after any number k of them.  git refuses to clone into a path that
\* exists.
Clone ==
    /\ pc = "clone"
    /\ Ran("clone", None)
    /\ \/ /\ Fail(IF exists THEN "ProcessFailure" ELSE "NetworkFailure")
          /\ UNCHANGED wcVars
       \/ /\ ~exists
          /\ \E k \in 0..NumSubs :
             LET done == {SubOrder[i] : i \in 1..Min(k, Len(SubOrder))}
                 cloned == [p \in SubPaths |->
                              IF p \in done THEN Gitlink(rTip, p) ELSE 0]
             IN  /\ exists' = TRUE
                 /\ origin' = "url"
                 /\ head' = rTip
                 /\ lBranch' = rTip
                 /\ dirty' = FALSE
                 /\ sInit' = [p \in SubPaths |-> p \in done]
                 /\ sBranch' = [p \in SubPaths |->
                                  IF p \in done THEN sTip[p] ELSE 0]
                 /\ sHead' = cloned
                 /\ nest' = IF k > Len(SubOrder)
                            THEN ClonedNest(cloned[NestedParent])
                            ELSE NoNest
                 /\ IF k = NumSubs
                    THEN /\ pc' = "reset_pull"
                         /\ UNCHANGED <<result, histVars>>
                    ELSE Fail("NetworkFailure")
    /\ UNCHANGED <<envVars, argVars, pinIdx>>
    /\ UNCHANGED otherVars

\* ----------------------------------------------------------- _update_code

\* Lines 703-705, first command: force-checkout of the default branch, then
\* the fast-forward-only pull.
ResetPull ==
    /\ pc = "reset_pull"
    /\ Ran("reset_pull", None)
    /\ IF ~GitRuns
       THEN /\ Fail(GitError)
            /\ UNCHANGED wcVars
       ELSE \E net \in BOOLEAN :
            LET o == Pull(lBranch, rTip, net)
            IN  /\ head' = o.branch
                /\ lBranch' = o.branch
                /\ dirty' = ForceCheckoutDirty
                /\ UNCHANGED <<exists, origin, sInit, sHead, sBranch, nest>>
                /\ IF o.ok
                   THEN /\ pc' = "submodule_update"
                        /\ UNCHANGED <<result, histVars>>
                   ELSE Fail(o.err)
    /\ UNCHANGED <<envVars, argVars, pinIdx>>
    /\ UNCHANGED otherVars

\* Line 706: `git submodule update --init --recursive`.  A submodule that
\* is not cloned yet is cloned (its default branch at the remote's tip);
\* every submodule is left, detached, at the commit the superproject's HEAD
\* records for it.
SubmoduleUpdate ==
    /\ pc = "submodule_update"
    /\ Ran("submodule_update", None)
    /\ \/ /\ \/ \E p \in SubPaths : ~sInit[p]
             \/ nTip # 0 /\ ~nest.init
          /\ Fail("NetworkFailure")
          /\ UNCHANGED wcVars
       \/ /\ sInit' = [p \in SubPaths |-> TRUE]
          /\ sBranch' = [p \in SubPaths |->
                           IF sInit[p] THEN sBranch[p] ELSE sTip[p]]
          /\ sHead' = [p \in SubPaths |-> Gitlink(head, p)]
          /\ nest' = IF nTip = 0 THEN NoNest
                     ELSE ClonedNest(Gitlink(head, NestedParent))
          /\ pc' = "submodule_foreach"
          /\ UNCHANGED <<exists, origin, head, lBranch, dirty, result, histVars>>
    /\ UNCHANGED <<envVars, argVars, pinIdx>>
    /\ UNCHANGED otherVars

\* Line 707 as it would be without --recursive: reset_pull in the
\* submodules of the superproject only.
SubmoduleForeachTopLevel ==
    /\ pc = "submodule_foreach"
    /\ Ran("submodule_foreach", None)
    /\ \E down \in 0..Len(SubOrder) :
       LET o == Foreach(1, sHead, sBranch, down)
       IN  /\ sHead' = o.sHead
           /\ sBranch' = o.sBranch
           /\ IF o.ok
              THEN /\ pc' = "checkout_version"
                   /\ UNCHANGED <<result, histVars>>
              ELSE Fail(o.err)
    /\ UNCHANGED <<envVars, exists, origin, head, lBranch, dirty, sInit, nest,
                   argVars, pinIdx>>
    /\ UNCHANGED otherVars

\* Line 707: `git submodule foreach --recursive '<reset_pull>'`: reset_pull
\* in each submodule of the superproject and then, --recursive, in the
\* nested submodule; the first failure ends the command.
SubmoduleForeach ==
    /\ pc = "submodule_foreach"
    /\ Ran("submodule_foreach", None)
    /\ \E down \in 0..NumSubs :
       LET o == Foreach(1, sHead, sBranch, down)
           n == Pull(nest.branch, nTip, down <= Len(SubOrder))
       IN  /\ sHead' = o.sHead
           /\ sBranch' = o.sBranch
           /\ nest' = IF o.ok /\ nTip # 0
                      THEN [nest EXCEPT !.head = n.branch, !.branch = n.branch]
                      ELSE nest
           /\ IF ~o.ok THEN Fail(o.err)
              ELSE IF nTip # 0 /\ ~n.ok THEN Fail(n.err)
              ELSE /\ pc' = "checkout_version"
                   /\ UNCHANGED <<result, histVars>>
    /\ UNCHANGED <<envVars, exists, origin, head, lBranch, dirty, sInit, argVars,
                   pinIdx>>
    /\ UNCHANGED otherVars

\* _update_code as it would be without lines 710-711.
CheckoutVersionNever ==
    /\ pc = "checkout_version"
    /\ pc' = "pin"
    /\ UNCHANGED <<envVars, wcVars, argVars, histVars, pinIdx, result, trace>>
    /\ UNCHANGED otherVars

\* Lines 710-711 as they would be if a failing checkout were caught and
\* logged: the loop of lines 713-719 is entered all the same.
CheckoutVersionSwallow ==
    /\ pc = "checkout_version"
    /\ pc' = "pin"
    /\ IF version = None
       THEN UNCHANGED <<head, trace>>
       ELSE /\ Ran("checkout_version", version)
            /\ head' = IF TagCommit(version) = 0 THEN head
                       ELSE TagCommit(version)
    /\ UNCHANGED <<envVars, exists, origin, lBranch, dirty, sInit, sHead, sBranch,
                   nest, argVars, pinIdx, result, histVars>>
    /\ UNCHANGED otherVars

\* Lines 710-711: `git checkout <version>` when a version is given.
CheckoutVersion ==
    /\ pc = "checkout_version"
    /\ IF version = None
       THEN /\ pc' = "pin"
            /\ UNCHANGED <<head, trace, result, histVars>>
       ELSE /\ Ran("checkout_version", version)
            /\ IF TagCommit(version) = 0
               THEN /\ Fail("UnknownRevision")
                    /\ UNCHANGED head
               ELSE /\ head' = TagCommit(version)
                    /\ pc' = "pin"
                    /\ UNCHANGED <<result, histVars>>
    /\ UNCHANGED <<envVars, exists, origin, lBranch, dirty, sInit, sHead, sBranch,
                   nest, argVars, pinIdx>>
    /\ UNCHANGED otherVars

\* The loop as it would be if a failing checkout were logged and the loop
\* went on to the next item.
PinSubmoduleContinue ==
    /\ pc = "pin"
    /\ pinIdx <= Len(Labelled(subVersions))
    /\ LET name == Labelled(subVersions)[pinIdx][1]
           ver == Labelled(subVersions)[pinIdx][2]
           paths == SubmodulePathsOf(name)
       IN  /\ Ran("pin", name)
           /\ IF Cardinality(paths) # 1
              THEN /\ Fail("SubmoduleResolutionAmbiguous")
                   /\ UNCHANGED <<sHead, pinIdx>>
              ELSE LET p == CHOOSE q \in paths : TRUE
                   IN  IF SubTagCommit(ver) = 0
                       THEN /\ pinIdx' = pinIdx + 1
                            /\ UNCHANGED <<sHead, pc, result, histVars>>
                       ELSE /\ sHead' = [sHead EXCEPT ![p] = SubTagCommit(ver)]
                            /\ pinIdx' = pinIdx + 1
                            /\ UNCHANGED <<pc, result, histVars>>
    /\ UNCHANGED <<envVars, exists, origin, head, lBranch, dirty, sInit, sBranch,
                   nest, argVars>>
    /\ UNCHANGED otherVars

\* The loop as it would be if a failing checkout were tried a second time.
PinSubmoduleRetry ==
    /\ pc = "pin"
    /\ pinIdx <= Len(Labelled(subVersions))
    /\ LET name == Labelled(subVersions)[pinIdx][1]
           ver == Labelled(subVersions)[pinIdx][2]
           paths == SubmodulePathsOf(name)
       IN  /\ Ran("pin", name)
           /\ IF Cardinality(paths) # 1
              THEN /\ Fail("SubmoduleResolutionAmbiguous")
                   /\ UNCHANGED <<sHead, pinIdx>>
              ELSE LET p == CHOOSE q \in paths : TRUE
                   IN  IF SubTagCommit(ver) = 0
                       THEN IF \E i \in 1..Len(trace) :
                                    trace[i] = [cmd |-> "pin", arg |-> name]
                            THEN /\ Fail("UnknownRevision")
                                 /\ UNCHANGED <<sHead, pinIdx>>
                            ELSE UNCHANGED <<sHead, pinIdx, pc, result,
                                             histVars>>
                       ELSE /\ sHead' = [sHead EXCEPT ![p] = SubTagCommit(ver)]
                            /\ pinIdx' = pinIdx + 1
                            /\ UNCHANGED <<pc, result, histVars>>
    /\ UNCHANGED <<envVars, exists, origin, head, lBranch, dirty, sInit, sBranch,
                   nest, argVars>>
    /\ UNCHANGED otherVars

\* The loop as it would be if the first line of the awk output were taken
\* as the path (`| head -n 1`).
PinSubmoduleFirstMatch ==
    /\ pc = "pin"
    /\ pinIdx <= Len(Labelled(subVersions))
    /\ LET name == Labelled(subVersions)[pinIdx][1]
           ver == Labelled(subVersions)[pinIdx][2]
           paths == SubmodulePathsOf(name)
       IN  /\ Ran("pin", name)
           /\ IF paths = {}
              THEN /\ Fail("SubmoduleResolutionAmbiguous")
                   /\ UNCHANGED <<sHead, pinIdx>>
              ELSE LET k == CHOOSE i \in 1..Len(SubOrder) :
                                /\ SubOrder[i] \in paths
                                /\ \A j \in 1..(i - 1) : SubOrder[j] \notin paths
                       p == SubOrder[k]
                   IN  IF SubTagCommit(ver) = 0
                       THEN /\ Fail("UnknownRevision")
                            /\ UNCHANGED <<sHead, pinIdx>>
                       ELSE /\ sHead' = [sHead EXCEPT ![p] = SubTagCommit(ver)]
                            /\ pinIdx' = pinIdx + 1
                            /\ UNCHANGED <<pc, result, histVars>>
    /\ UNCHANGED <<envVars, exists, origin, head, lBranch, dirty, sInit, sBranch,
                   nest, argVars>>
    /\ UNCHANGED otherVars

\* Lines 713-719, one turn of the loop: resolve the path of the named
\* submodule, then `git -C <path> checkout <version>` in it.  sub_path is
\* the whole awk output less its last newline.  With no matching line the
\* command is `git -C  checkout <version>`: git takes `checkout` for the
\* directory and exits non-zero.  With two matching lines the command is
\* two lines of shell, `git -C <path1>` (no git command: usage, exit 1) and
\* `<path2> checkout <version>` (no such program, exit 127), and the shell
\* exits non-zero.  In both cases no checkout runs and check_output raises.
PinSubmodule ==
    /\ pc = "pin"
    /\ pinIdx <= Len(Labelled(subVersions))
    /\ LET name == Labelled(subVersions)[pinIdx][1]
           ver == Labelled(subVersions)[pinIdx][2]
           paths == SubmodulePathsOf(name)
       IN  /\ Ran("pin", name)
           /\ IF Cardinality(paths) # 1
              THEN /\ Fail("SubmoduleResolutionAmbiguous")
                   /\ UNCHANGED <<sHead, pinIdx>>
              ELSE LET p == CHOOSE q \in paths : TRUE
                   IN  IF SubTagCommit(ver) = 0
                       THEN /\ Fail("UnknownRevision")
                            /\ UNCHANGED <<sHead, pinIdx>>
                       ELSE /\ sHead' = [sHead EXCEPT ![p] = SubTagCommit(ver)]
                            /\ pinIdx' = pinIdx + 1
                            /\ UNCHANGED <<pc, result, histVars>>
    /\ UNCHANGED <<envVars, exists, origin, head, lBranch, dirty, sInit, sBranch,
                   nest, argVars>>
    /\ UNCHANGED otherVars

\* The loop is over: _update_code, and _clone_repo with it, returns.
Finish ==
    /\ pc = "pin"
    /\ pinIdx > Len(Labelled(subVersions))
    /\ Return(head, sHead)
    /\ UNCHANGED <<envVars, wcVars, argVars, pinIdx, trace>>
    /\ UNCHANGED otherVars

\* -------------------------------------------------------- the environment

\* Somebody pushes to the default branch of the superproject's remote (a
\* forced push included): its tip becomes c.
RemotePush(c) ==
    /\ pc = "idle"
    /\ c # rTip
    /\ rTip' = c
    /\ Gone
    /\ Forget
    /\ UNCHANGED <<gitInstalled, sTip, nTip, wcVars, pc>>
    /\ UNCHANGED otherVars

\* Somebody pushes to the default branch of a submodule's remote.
SubRemotePush(p, c) ==
    /\ pc = "idle"
    /\ c # sTip[p]
    /\ sTip' = [sTip EXCEPT ![p] = c]
    /\ Gone
    /\ Forget
    /\ UNCHANGED <<gitInstalled, rTip, nTip, wcVars, pc>>
    /\ UNCHANGED otherVars

\* Somebody edits a tracked file of the working copy.
ManualEdit ==
    /\ pc = "idle"
    /\ exists
    /\ ~dirty
    /\ dirty' = TRUE
    /\ Gone
    /\ UNCHANGED <<envVars, exists, origin, head, lBranch, sInit, sHead, sBranch,
                   nest, histVars, pc>>
    /\ UNCHANGED otherVars

Next ==
    \/ \E v \in Labels \cup {None}, sv \in SubVersionMaps : CallCloneRepo(v, sv)
    \/ \E v \in Labels \cup {None}, sv \in SubVersionMaps : CallUpdateCode(v, sv)
    \/ InstallGit
    \/ Clone
    \/ ResetPull
    \/ SubmoduleUpdate
    \/ SubmoduleForeach
    \/ CheckoutVersion
    \/ PinSubmodule
    \/ Finish
    \/ \E c \in Commits : RemotePush(c)
    \/ \E p \in SubPaths, c \in SubCommits : SubRemotePush(p, c)
    \/ ManualEdit

Spec == Init /\ [][Next]_vars

\* ------------------------------- a target that somebody else has made

\* What the target path holds before the first invocation: a clone of
\* another repository than the one the caller names (a fork with the same
\* submodules, at the tip of its own remote, which is then the remote the
\* git commands of the working copy talk to), or a directory that is no git
\* working copy.
Foreign == {"other", "nogit"}

InitForeign ==
    /\ gitInstalled \in BOOLEAN
    /\ rTip \in Commits
    /\ sTip \in [SubPaths -> SubCommits]
    /\ nTip = 0
    /\ nest = NoNest
    /\ exists = TRUE
    /\ origin \in Foreign
    /\ head = (IF origin = "other" THEN rTip ELSE 0)
    /\ lBranch = head
    /\ dirty = FALSE
    /\ sInit = [p \in SubPaths |-> origin = "other"]
    /\ sHead = [p \in SubPaths |->
                  IF origin = "other" THEN Gitlink(rTip, p) ELSE 0]
    /\ sBranch = [p \in SubPaths |-> IF origin = "other" THEN sTip[p] ELSE 0]
    /\ pc = "idle"
    /\ version = None
    /\ subVersions = NoMap
    /\ pinIdx = 1
    /\ result = "none"
    /\ entry = "none"
    /\ existedAtStart = FALSE
    /\ dirtyAtStart = FALSE
    /\ retry = FALSE
    /\ trace = <<>>
    /\ last = NoSnapshot
    /\ streak = 0
    /\ InstOff
    /\ ConcOff
    /\ SetOff
    /\ HostOff

NextForeign ==
    \/ \E v \in Labels \cup {None}, sv \in SubVersionMaps : CallCloneRepo(v, sv)
    \/ InstallGit
    \/ ResetPull
    \/ SubmoduleUpdate
    \/ SubmoduleForeach
    \/ CheckoutVersion
    \/ PinSubmodule
    \/ Finish
    \/ \E c \in Commits : RemotePush(c)

SpecForeign == InitForeign /\ [][NextForeign]_vars

\* ------------------------------------- a target with a nested submodule

\* The target is a repository one of whose submodules has a submodule of
\* its own (infra, whose submodule public has the submodule installer).
InitNested ==
    /\ InitSync
    /\ gitInstalled = TRUE
    /\ nTip \in SubCommits
    /\ InstOff
    /\ ConcOff
    /\ SetOff
    /\ HostOff

\* Somebody pushes to the default branch of the nested submodule's remote.
NestedRemotePush(c) ==
    /\ pc = "idle"
    /\ nTip # 0
    /\ c # nTip
    /\ nTip' = c
    /\ Gone
    /\ Forget
    /\ UNCHANGED <<gitInstalled, rTip, sTip, wcVars, pc>>
    /\ UNCHANGED otherVars

\* The arguments of _core_install_in_repo's call, with and without
\* versions.
NestedMaps == {NoMap, <<<<SubNames[1], "0.5.53">>, <<SubNames[2], "0.5.53">>>>}

NextNested ==
    \/ \E v \in {None, "0.5.53"}, sv \in NestedMaps : CallCloneRepo(v, sv)
    \/ Clone
    \/ ResetPull
    \/ SubmoduleUpdate
    \/ SubmoduleForeach
    \/ CheckoutVersion
    \/ PinSubmodule
    \/ Finish
    \/ \E c \in Commits : RemotePush(c)
    \/ \E p \in SubPaths, c \in SubCommits : SubRemotePush(p, c)
    \/ \E c \in SubCommits : NestedRemotePush(c)

SpecNested == InitNested /\ [][NextNested]_vars

\* ---------------------------------------------------------- _run_command

\* Environment variables and values; PYTHONPATH is the one variable the
\* installer overrides (line 308).
EnvKeys == {"PATH", "PYTHONPATH"}

EnvValues == {"src", "lib"}

\* The environments a process may have: any of the variables set or not.
Environs == UNION {[S -> EnvValues] : S \in SUBSET EnvKeys}

\* Line 556 as {**env, **environ}: the process environment wins.
OverlayBaseWins(base, env) ==
    [k \in (DOMAIN base) \cup (DOMAIN env) |->
        IF k \in DOMAIN base THEN base[k] ELSE env[k]]

\* Line 556, {**environ, **env}: the keys of both, the value of env where
\* both have the key.
Overlay(base, env) ==
    [k \in (DOMAIN base) \cup (DOMAIN env) |->
        IF k \in DOMAIN env THEN env[k] ELSE base[k]]

\* Lines 553-557: env_use.  An optional mapping is <<>> (None) or <<m>>.
EnvUse(env) == IF env = <<>> THEN <<>> ELSE <<Overlay(environ, env[1])>>

\* The environment check_output gives the child: env_use, or with
\* env=None a copy of the process's own.
ChildEnv(envUse) == IF envUse = <<>> THEN environ ELSE envUse[1]

\* Lines 541-552: what the pair (bashrc, direnv) adds to the description
\* and puts in front of the command.
DescTag(a) ==
    IF a.direnv THEN "direnv" ELSE IF a.bashrc THEN "bashrc" ELSE ""

\* The arguments of one call of _run_command.
RunArgs(cmd, arg, bashrc, direnv, env, cwd, skip_log) ==
    [kind |-> "cmd", text |-> "", cmd |-> cmd, arg |-> arg,
     bashrc |-> bashrc, direnv |-> direnv, env |-> env, cwd |-> cwd,
     skip_log |-> skip_log]

\* A line of the log.  A line of _run_command (text "Running") names the
\* command, the env overrides and the working directory.
LogLine(text, cmd, arg, tag, env, cwd) ==
    [type |-> "log", text |-> text, cmd |-> cmd, arg |-> arg, tag |-> tag,
     env |-> env, cwd |-> cwd, child |-> <<>>, parent |-> <<>>, exit |-> 0]

\* A command handed to check_output: the command, what was put in front of
\* it, its working directory, the env given, the environment the child
\* gets, the environment of the process at that time and the exit status.
Exec(a, exit) ==
    [type |-> "exec", text |-> "", cmd |-> a.cmd, arg |-> a.arg,
     tag |-> DescTag(a), env |-> a.env, cwd |-> a.cwd,
     child |-> ChildEnv(EnvUse(a.env)), parent |-> environ, exit |-> exit]

\* _run_command as it would be if the line were logged once check_output
\* has returned.
RunCommandLogAfter(ev, a, exit) ==
    LET started == Append(ev, Exec(a, exit))
    IN  IF a.skip_log \/ exit # 0 THEN started
        ELSE Append(started,
                    LogLine("Running", a.cmd, a.arg, DescTag(a), a.env, a.cwd))

\* Lines 539-564, _run_command(cmd, ...) exiting with `exit`: the log with
\* the line of 560-561 (unless skip_log) and then the command of 562-564.
RunCommand(ev, a, exit) ==
    LET logged ==
            IF a.skip_log THEN ev
            ELSE Append(ev, LogLine("Running", a.cmd, a.arg, DescTag(a),
                                    a.env, a.cwd))
    IN  Append(logged, Exec(a, exit))

\* os.environ after _run_command if the overrides were written into it
\* (environ.update(env)).
EnvironUpdated(a) == IF a.env = <<>> THEN environ ELSE Overlay(environ, a.env[1])

\* os.environ after _run_command: line 556 builds a new dict, the process's
\* own environment is left alone.
EnvironAfter(a) == environ

\* ------------------------------------------------------------ the installer

\* The bodies of the installer's functions as the log lines they write and
\* the commands they run, in order.  The flags that only add words to a
\* command line (docker, skip_dev, gitlab, ...) are left out.

Modes == {None, "public", "core", "core-in-repo", "infra", "password"}

\* The values given to --password.
RootPasswords == {"hunter2", "swordfish"}

\* What _PublicInstallerSettings.parse may return.
SettingsSet ==
    [mode : Modes, public_version : Labels,
     installer_version : {None, "0.5.53"}, infra_version : {None, "0.5.53"},
     password : {None} \cup RootPasswords]

\* Line 122 as it would be if the settings were logged as parsed.
Unmasked(st) == st

\* Line 122, replace(settings, password="***"): what is logged of the
\* settings.
Masked(st) == [st EXCEPT !.password = "***"]

\* A line written with _LOGGER.info by a function other than _run_command.
Info(text, arg) ==
    [kind |-> "info", text |-> text, cmd |-> None, arg |-> arg,
     bashrc |-> FALSE, direnv |-> FALSE, env |-> <<>>, cwd |-> None,
     skip_log |-> FALSE]

\* The functions imported from .lib by _core_install_in_repo (lines
\* 356-402), which are not part of this module: they return or raise.
Lib ==
    [kind |-> "lib", text |-> "", cmd |-> None, arg |-> None,
     bashrc |-> FALSE, direnv |-> FALSE, env |-> <<>>, cwd |-> None,
     skip_log |-> FALSE]

\* A plain _run_command(cmd, cwd=cwd).
Git(cmd, arg, cwd) == RunArgs(cmd, arg, FALSE, FALSE, <<>>, cwd, FALSE)

\* Lines 712-719: the two commands of each item that has a version.
RECURSIVE PinScript(_, _, _)
PinScript(items, i, cwd) ==
    IF i > Len(items) THEN <<>>
    ELSE (IF items[i][2] = None THEN <<>>
          ELSE <<Git("git submodule status | awk", items[i][1], cwd),
                 Git("git -C checkout", items[i][2], cwd)>>)
         \o PinScript(items, i + 1, cwd)

\* Lines 693-719: _update_code(cwd=cwd, version=version,
\* submodule_versions=items).
UpdateCodeScript(cwd, ver, items) ==
    <<Info("Updating code", ver),
      Git("reset_pull", None, cwd),
      Git("git submodule update", None, cwd),
      Git("git submodule foreach", None, cwd)>>
    \o (IF ver = None THEN <<>> ELSE <<Git("git checkout", ver, cwd)>>)
    \o PinScript(items, 1, cwd)

\* Lines 495-504: _clone_repo(url, target, version=version,
\* submodule_versions=items), on a machine where git is there or not and
\* the target exists or not.
CloneRepoScript(url, target, ver, items, gitThere, targetThere) ==
    (IF gitThere THEN <<>>
     ELSE <<Info("Installing 'git'", None),
            Git("apt -y update", None, None),
            Git("apt install -y git", None, None)>>)
    \o (IF targetThere THEN <<Info("already exists", target)>>
        ELSE <<Info("Cloning", url), Git("git clone", url, None)>>)
    \o UpdateCodeScript(target, ver, items)

\* {"installer": installer_version} (lines 263, 288).
InstallerOnly(st) == <<<<"installer", st.installer_version>>>>

\* {"public": public_version, "installer": installer_version} (lines 407,
\* 439).
PublicAndInstaller(st) ==
    <<<<"public", st.public_version>>, <<"installer", st.installer_version>>>>

\* The body of the function `fn` of the installer with the settings st.
Script(fn, st, gitThere, targetThere) ==
    CASE fn = "public" ->
            <<Info("Running public installation", st.public_version)>>
            \o CloneRepoScript("public.git", "~/public", st.public_version,
                               InstallerOnly(st), gitThere, targetThere)
      [] fn = "core" ->
            <<Info("Running core installation", st.public_version)>>
            \o UpdateCodeScript("~/public", st.public_version,
                                InstallerOnly(st))
            \o <<RunArgs("python3 -m public.install", "core-in-repo", FALSE,
                         FALSE, <<[PYTHONPATH |-> "src"]>>, "~/public",
                         FALSE)>>
      [] fn = "core-in-repo" ->
            <<Info("Running core installation in repo", st.public_version),
              Lib>>
            \o CloneRepoScript("infra-mirror", "~/infra", st.infra_version,
                               PublicAndInstaller(st), gitThere, targetThere)
      [] fn = "infra" ->
            <<Info("Running 'infra.install'", st.public_version)>>
            \o UpdateCodeScript("~/infra", st.infra_version,
                                PublicAndInstaller(st))
            \o <<RunArgs("python3 -m infra.install", st.public_version,
                         FALSE, TRUE, <<>>, "~/infra", FALSE)>>
      [] fn = "password" ->
            <<Info("Setting root password", None),
              RunArgs("chpasswd", st.password, FALSE, FALSE, <<>>, None,
                      TRUE)>>

\* Lines 223-244: the functions _initial_install calls, in order.
InitialSteps == <<"public", "core", "infra">>

\* The function _initial_install calls after `fn`, "done" after the last.
NextStep(fn) ==
    IF \E i \in 1..(Len(InitialSteps) - 1) : InitialSteps[i] = fn
    THEN InitialSteps[(CHOOSE i \in 1..Len(InitialSteps) :
                           InitialSteps[i] = fn) + 1]
    ELSE "done"

\* The function `fn` is called: its body is what is to be run next.
Enter(fn) ==
    /\ ipc' = fn
    /\ \E gitThere \in BOOLEAN, targetThere \in BOOLEAN :
           todo' = Script(fn, settings, gitThere, targetThere)

\* _install returns.
InstallReturns ==
    /\ ipc' = "done"
    /\ ires' = "ok"
    /\ todo' = <<>>

\* The step as it would be if _initial_install isolated each step: the
\* failure is logged and the next function is called.
RaiseIsolated(err) ==
    IF settings.mode = None /\ NextStep(ipc) # "done"
    THEN /\ Enter(NextStep(ipc))
         /\ UNCHANGED ires
    ELSE InstallReturns

\* An exception leaves the function that is running.  No function of the
\* installer catches it (lines 137-151, 223-244): it leaves _install too.
Raise(err) ==
    /\ ipc' = "done"
    /\ ires' = err
    /\ todo' = <<>>

\* Lines 133-194: _install logs, parses the settings (line 122 logs them
\* with the password replaced) and calls the function of the mode.
Install ==
    /\ ipc = "install"
    /\ events' = events \o
           <<LogLine("Running installer", None, None, "", <<>>, None),
             LogLine("'public' settings", None, Masked(settings).password, "",
                     <<>>, None)>>
    /\ IF settings.mode = None
       THEN /\ Enter(InitialSteps[1])
            /\ UNCHANGED ires
       ELSE IF settings.mode = "password" /\ settings.password = None
       THEN Raise("ValueError")
       ELSE /\ Enter(settings.mode)
            /\ UNCHANGED ires
    /\ UNCHANGED <<settings, environ, syncVars, concVars, setVars, hostVars>>

\* The function that is running writes a line to the log.
RunInfo ==
    /\ ipc \notin {"off", "install", "done"}
    /\ todo # <<>>
    /\ Head(todo).kind = "info"
    /\ events' = Append(events, LogLine(Head(todo).text, None, Head(todo).arg,
                                        "", <<>>, None))
    /\ todo' = Tail(todo)
    /\ UNCHANGED <<settings, ipc, ires, environ, syncVars, concVars, setVars, hostVars>>

\* The function that is running calls _run_command; the command exits with
\* status 0, or with another and check_output raises.
RunCmd ==
    /\ ipc \notin {"off", "install", "done"}
    /\ todo # <<>>
    /\ Head(todo).kind = "cmd"
    /\ \E exit \in {0, 1} :
           /\ events' = RunCommand(events, Head(todo), exit)
           /\ IF exit = 0
              THEN /\ todo' = Tail(todo)
                   /\ UNCHANGED <<ipc, ires>>
              ELSE Raise("CalledProcessError")
    /\ environ' = EnvironAfter(Head(todo))
    /\ UNCHANGED <<settings, syncVars, concVars, setVars, hostVars>>

\* _core_install_in_repo runs the functions of .lib.
RunLib ==
    /\ ipc \notin {"off", "install", "done"}
    /\ todo # <<>>
    /\ Head(todo).kind = "lib"
    /\ \/ /\ todo' = Tail(todo)
          /\ UNCHANGED <<ipc, ires>>
       \/ Raise("LibError")
    /\ UNCHANGED <<settings, events, environ, syncVars, concVars, setVars, hostVars>>

\* The function that is running returns: to _initial_install, which calls
\* the next one, or to _install, which returns.
StepReturn ==
    /\ ipc \notin {"off", "install", "done"}
    /\ todo = <<>>
    /\ IF settings.mode = None /\ NextStep(ipc) # "done"
       THEN /\ Enter(NextStep(ipc))
            /\ UNCHANGED ires
       ELSE InstallReturns
    /\ UNCHANGED <<settings, events, environ, syncVars, concVars, setVars, hostVars>>

\* The process environments the installer is started in.
InstallEnvirons ==
    {<<>>, [PYTHONPATH |-> "lib"], [PATH |-> "lib", PYTHONPATH |-> "src"]}

\* The sync of one target is not running.
SyncOff ==
    /\ gitInstalled = TRUE
    /\ rTip = 1
    /\ sTip = [p \in SubPaths |-> 1]
    /\ nTip = 0
    /\ nest = NoNest
    /\ exists = FALSE
    /\ origin = "none"
    /\ head = 0
    /\ lBranch = 0
    /\ dirty = FALSE
    /\ sInit = [p \in SubPaths |-> FALSE]
    /\ sHead = [p \in SubPaths |-> 0]
    /\ sBranch = [p \in SubPaths |-> 0]
    /\ pc = "idle"
    /\ version = None
    /\ subVersions = NoMap
    /\ pinIdx = 1
    /\ result = "none"
    /\ entry = "none"
    /\ existedAtStart = FALSE
    /\ dirtyAtStart = FALSE
    /\ retry = FALSE
    /\ trace = <<>>
    /\ last = NoSnapshot
    /\ streak = 0

\* `python3 -m public.install ...` is started.
InitInstall ==
    /\ settings \in SettingsSet
    /\ ipc = "install"
    /\ ires = "none"
    /\ events = <<>>
    /\ environ \in InstallEnvirons
    /\ todo = <<>>
    /\ SyncOff
    /\ ConcOff
    /\ SetOff
    /\ HostOff

NextInstall ==
    \/ Install
    \/ RunInfo
    \/ RunCmd
    \/ RunLib
    \/ StepReturn

SpecInstall == InitInstall /\ [][NextInstall]_vars

\* One call of _run_command with any arguments, in any environment.
RunAny(a, exit) ==
    /\ ipc = "off"
    /\ events' = RunCommand(<<>>, a, exit)
    /\ environ' = EnvironAfter(a)
    /\ UNCHANGED <<settings, ipc, ires, todo, syncVars, concVars, setVars, hostVars>>

\* The process is in some environment; nothing has been run.
InitRun ==
    /\ settings = <<>>
    /\ ipc = "off"
    /\ ires = "none"
    /\ events = <<>>
    /\ environ \in Environs
    /\ todo = <<>>
    /\ SyncOff
    /\ ConcOff
    /\ SetOff
    /\ HostOff

NextRun ==
    \E bashrc \in BOOLEAN, direnv \in BOOLEAN, skip_log \in BOOLEAN,
       env \in {<<>>} \cup {<<e>> : e \in Environs},
       cwd \in {None, "~/public"}, exit \in {0, 1} :
        RunAny(RunArgs("cmd", None, bashrc, direnv, env, cwd, skip_log), exit)

SpecRun == InitRun /\ [][NextRun]_vars

\* ------------------------------ two invocations at once on one target

\* Two installers are started at about the same time on one machine: each
\* calls _clone_repo(url, target, ...) with the same target.  Nothing in
\* _clone_repo or _update_code takes a lock, so the steps of the two are
\* interleaved in any order; the working copy is the one both act on.  The
\* remotes are reachable throughout.
Procs == {1, 2}

\* The arguments of an invocation: nothing pinned, or the call of
\* _public_install (line 259-264) with both versions given.
ConcArgs ==
    {[version |-> None, subVersions |-> NoMap],
     [version |-> "0.5.53", subVersions |-> <<<<"installer", "0.5.53">>>>]}

\* An invocation that has found git (line 495) and has not yet looked at
\* the target.
NewProc(a) ==
    [pc |-> "check", version |-> a.version, subVersions |-> a.subVersions,
     pinIdx |-> 1, result |-> "none", sawAbsent |-> FALSE]

\* What is left alone by every step of an invocation.
concFrame ==
    <<envVars, argVars, histVars, pc, pinIdx, result, trace, instVars, setVars,
      hostVars>>

\* Invocation p starts the command `cmd`.
ConcRan(p, cmd) == ctrace' = Append(ctrace, <<p, cmd>>)

\* A command of invocation p exited non-zero: check_output raises.
ConcFail(p, err) ==
    procs' = [procs EXCEPT ![p].pc = "done", ![p].result = err]

\* Invocation p goes on to `next`.
ConcGoto(p, next) == procs' = [procs EXCEPT ![p].pc = next]

\* Line 499 as it would be under a lock on the target, held from the check
\* to the return: the check waits while another invocation is under way.
ConcExistenceCheckLocked(p) ==
    /\ procs[p].pc = "check"
    /\ \A q \in Procs \ {p} : procs[q].pc \in {"check", "done"}
    /\ procs' = [procs EXCEPT ![p].pc = ExistenceCheck,
                              ![p].sawAbsent = ~exists]
    /\ UNCHANGED <<ctrace, wcVars, concFrame>>

\* Line 499: target.exists(), whatever any other invocation is doing.
ConcExistenceCheck(p) ==
    /\ procs[p].pc = "check"
    /\ procs' = [procs EXCEPT ![p].pc = ExistenceCheck,
                              ![p].sawAbsent = ~exists]
    /\ UNCHANGED <<ctrace, wcVars, concFrame>>

\* Line 503, `git clone` starts: git looks at the destination itself and
\* refuses a path that exists (and is not an empty directory).
ConcCloneStart(p) ==
    /\ procs[p].pc = "clone"
    /\ ConcRan(p, "clone")
    /\ IF exists THEN ConcFail(p, "ProcessFailure") ELSE ConcGoto(p, "cloning")
    /\ UNCHANGED <<wcVars, concFrame>>

\* The working copy is gone (git clone removes what it wrote when it dies).
ConcRemoved ==
    /\ exists' = FALSE
    /\ origin' = "none"
    /\ head' = 0
    /\ lBranch' = 0
    /\ dirty' = FALSE
    /\ sInit' = [q \in SubPaths |-> FALSE]
    /\ sHead' = [q \in SubPaths |-> 0]
    /\ sBranch' = [q \in SubPaths |-> 0]
    /\ nest' = NoNest

\* Line 503, `git clone` ends.  On a path that is still absent it writes
\* the working copy.  When another clone has written the same path in
\* between, the two have raced on the same files: this clone finds the
\* files it wants already there and succeeds, or it dies on a file or lock
\* of the other, and then it either leaves the directory or removes it.
ConcCloneEnd(p) ==
    /\ procs[p].pc = "cloning"
    /\ IF ~exists
       THEN /\ exists' = TRUE
            /\ origin' = "url"
            /\ head' = rTip
            /\ lBranch' = rTip
            /\ dirty' = FALSE
            /\ sInit' = [q \in SubPaths |-> TRUE]
            /\ sBranch' = [q \in SubPaths |-> sTip[q]]
            /\ sHead' = [q \in SubPaths |-> Gitlink(rTip, q)]
            /\ nest' = NoNest
            /\ ConcGoto(p, "reset_pull")
       ELSE \/ /\ ConcGoto(p, "reset_pull")
               /\ UNCHANGED wcVars
            \/ /\ ConcFail(p, "ProcessFailure")
               /\ UNCHANGED wcVars
            \/ /\ ConcFail(p, "ProcessFailure")
               /\ ConcRemoved
    /\ UNCHANGED <<ctrace, concFrame>>

\* Lines 703-705 in invocation p.
ConcResetPull(p) ==
    /\ procs[p].pc = "reset_pull"
    /\ ConcRan(p, "reset_pull")
    /\ IF ~GitRuns
       THEN /\ ConcFail(p, GitError)
            /\ UNCHANGED wcVars
       ELSE LET o == Pull(lBranch, rTip, TRUE)
            IN  /\ head' = o.branch
                /\ lBranch' = o.branch
                /\ dirty' = ForceCheckoutDirty
                /\ UNCHANGED <<exists, origin, sInit, sHead, sBranch, nest>>
                /\ IF o.ok THEN ConcGoto(p, "submodule_update")
                   ELSE ConcFail(p, o.err)
    /\ UNCHANGED concFrame

\* Line 706 in invocation p.
ConcSubmoduleUpdate(p) ==
    /\ procs[p].pc = "submodule_update"
    /\ ConcRan(p, "submodule_update")
    /\ IF ~GitRuns
       THEN /\ ConcFail(p, GitError)
            /\ UNCHANGED wcVars
       ELSE /\ sInit' = [q \in SubPaths |-> TRUE]
            /\ sBranch' = [q \in SubPaths |->
                             IF sInit[q] THEN sBranch[q] ELSE sTip[q]]
            /\ sHead' = [q \in SubPaths |-> Gitlink(head, q)]
            /\ ConcGoto(p, "submodule_foreach")
            /\ UNCHANGED <<exists, origin, head, lBranch, dirty, nest>>
    /\ UNCHANGED concFrame

\* Line 707 in invocation p.
ConcSubmoduleForeach(p) ==
    /\ procs[p].pc = "submodule_foreach"
    /\ ConcRan(p, "submodule_foreach")
    /\ IF ~GitRuns
       THEN /\ ConcFail(p, GitError)
            /\ UNCHANGED wcVars
       ELSE LET o == Foreach(1, sHead, sBranch, 0)
            IN  /\ sHead' = o.sHead
                /\ sBranch' = o.sBranch
                /\ UNCHANGED <<exists, origin, head, lBranch, dirty, sInit, nest>>
                /\ IF o.ok THEN ConcGoto(p, "checkout_version")
                   ELSE ConcFail(p, o.err)
    /\ UNCHANGED concFrame

\* Lines 710-711 in invocation p.
ConcCheckoutVersion(p) ==
    /\ procs[p].pc = "checkout_version"
    /\ IF procs[p].version = None
       THEN /\ ConcGoto(p, "pin")
            /\ UNCHANGED <<ctrace, wcVars>>
       ELSE /\ ConcRan(p, "checkout_version")
            /\ IF ~GitRuns
               THEN /\ ConcFail(p, GitError)
                    /\ UNCHANGED wcVars
               ELSE IF TagCommit(procs[p].version) = 0
               THEN /\ ConcFail(p, "UnknownRevision")
                    /\ UNCHANGED wcVars
               ELSE /\ head' = TagCommit(procs[p].version)
                    /\ ConcGoto(p, "pin")
                    /\ UNCHANGED <<exists, origin, lBranch, dirty, sInit, sHead,
                                   sBranch, nest>>
    /\ UNCHANGED concFrame

\* Lines 713-719 in invocation p, one turn of the loop.
ConcPinSubmodule(p) ==
    /\ procs[p].pc = "pin"
    /\ procs[p].pinIdx <= Len(Labelled(procs[p].subVersions))
    /\ LET name == Labelled(procs[p].subVersions)[procs[p].pinIdx][1]
           ver == Labelled(procs[p].subVersions)[procs[p].pinIdx][2]
           paths == SubmodulePathsOf(name)
       IN  /\ ConcRan(p, "pin")
           /\ IF ~GitRuns
              THEN /\ ConcFail(p, GitError)
                   /\ UNCHANGED wcVars
              ELSE IF Cardinality(paths) # 1
              THEN /\ ConcFail(p, "SubmoduleResolutionAmbiguous")
                   /\ UNCHANGED wcVars
              ELSE IF SubTagCommit(ver) = 0
              THEN /\ ConcFail(p, "UnknownRevision")
                   /\ UNCHANGED wcVars
              ELSE /\ sHead' = [sHead EXCEPT
                                  ![CHOOSE q \in paths : TRUE] = SubTagCommit(ver)]
                   /\ procs' = [procs EXCEPT ![p].pinIdx = @ + 1]
                   /\ UNCHANGED <<exists, origin, head, lBranch, dirty, sInit,
                                  sBranch, nest>>
    /\ UNCHANGED concFrame

\* The loop of invocation p is over: its _clone_repo returns.
ConcFinish(p) ==
    /\ procs[p].pc = "pin"
    /\ procs[p].pinIdx > Len(Labelled(procs[p].subVersions))
    /\ procs' = [procs EXCEPT ![p].pc = "done", ![p].result = "ok"]
    /\ UNCHANGED <<ctrace, wcVars, concFrame>>

\* The next step of invocation p, whichever it is.
ConcStep(p) ==
    \/ ConcExistenceCheck(p)
    \/ ConcCloneStart(p)
    \/ ConcCloneEnd(p)
    \/ ConcResetPull(p)
    \/ ConcSubmoduleUpdate(p)
    \/ ConcSubmoduleForeach(p)
    \/ ConcCheckoutVersion(p)
    \/ ConcPinSubmodule(p)
    \/ ConcFinish(p)

\* Both invocations have been made; the target does not exist.
InitConc ==
    /\ InitSync
    /\ gitInstalled = TRUE
    /\ sTip = [q \in SubPaths |-> MaxSubCommit]
    /\ nTip = 0
    /\ InstOff
    /\ procs \in [Procs -> {NewProc(a) : a \in ConcArgs}]
    /\ ctrace = <<>>
    /\ SetOff
    /\ HostOff

NextConc ==
    \/ \E p \in Procs : ConcExistenceCheck(p)
    \/ \E p \in Procs : ConcCloneStart(p)
    \/ \E p \in Procs : ConcCloneEnd(p)
    \/ \E p \in Procs : ConcResetPull(p)
    \/ \E p \in Procs : ConcSubmoduleUpdate(p)
    \/ \E p \in Procs : ConcSubmoduleForeach(p)
    \/ \E p \in Procs : ConcCheckoutVersion(p)
    \/ \E p \in Procs : ConcPinSubmodule(p)
    \/ \E p \in Procs : ConcFinish(p)

SpecConc == InitConc /\ [][NextConc]_vars

\* --------------------------------------------------------- the settings

\* A path is the sequence of its components below the root; a name is the
\* sequence of the pieces between its slashes (<<>>: the empty string).
\* Names that are no plain word matter to Path(): an empty piece (the name
\* is empty, or starts or ends with a slash) and "." are dropped by it,
\* ".." is kept.
NameParts == {"", ".", "..", "name", "qrt"}

MaxNameParts == 2

NfsNames == UNION {[1..n -> NameParts] : n \in 0..MaxNameParts}

\* Path(s): empty components and "." components are dropped.
Normal(parts) == SelectSeq(parts, LAMBDA c : c # "" /\ c # ".")

\* storage.nfs.common.export_template and .path_template of
\* public_config.toml, as their components.
ExportTemplate == <<"mnt", "qrt-pool", "${name}">>

PathTemplate == <<"mnt", "${name}">>

\* storage.nfs.common.server, .content and .nodes.
Server == "truenas.qrt"

NfsContent ==
    <<"backup", "images", "import", "iso", "rootdir", "snippets", "vztmpl">>

NfsNodes == <<"proxmox">>

\* Template(str(template)).substitute(name=name): the placeholder is
\* replaced by the name, whatever the name is made of.
RECURSIVE Substitute(_, _)
Substitute(template, name) ==
    IF template = <<>> THEN <<>>
    ELSE (IF Head(template) = "${name}" THEN name ELSE <<Head(template)>>)
         \o Substitute(Tail(template), name)

\* Lines 83-86.
CommonExport(name) == Normal(Substitute(ExportTemplate, name))

\* Lines 88-91.
CommonPath(name) == Normal(Substitute(PathTemplate, name))

\* Lines 93-94.
CommonQrt(name) == Append(CommonPath(name), "qrt")

\* Lines 96-97 as they would be with the secrets next to qrt, not in it.
CommonSecretsBesideQrt(name) == Append(CommonPath(name), "secrets")

\* Lines 96-97.
CommonSecrets(name) == Append(CommonQrt(name), "secrets")

CommonFns == {"export", "path", "qrt", "secrets"}

\* common.<fn>(name)
Common(fn, name) ==
    CASE fn = "export" -> CommonExport(name)
      [] fn = "path" -> CommonPath(name)
      [] fn = "qrt" -> CommonQrt(name)
      [] fn = "secrets" -> CommonSecrets(name)

\* The members of _StorageNFS, in the order of its __repr__ (line 69).
NfsMembers == <<"qrt_dataset", "qrt_dropbox", "qrt_images", "isos">>

\* _Member.new(path): storage.nfs.<member>.name of public_config.toml.
MemberName(m) ==
    CASE m = "qrt_dataset" -> <<"qrt-dataset">>
      [] m = "qrt_dropbox" -> <<"qrt-dropbox">>
      [] m = "qrt_images" -> <<"qrt-images">>
      [] m = "isos" -> <<"isos">>

\* Lines 150-164: the properties of a member.
Member(m, fn) == Common(fn, MemberName(m))

\* A text is the sequence of its lines; a line of a block is its keyword
\* and the value printed after it.
\* _StorageDir.__repr__ (lines 49-55).
DirRepr ==
    <<<<"dir:", "local">>, <<"path", <<"var", "lib", "vz">>>>,
      <<"content", <<"backup", "iso", "vztmpl">>>>>>

\* _StorageZFSPool.__repr__ (lines 107-114), sparse being true.
ZfsRepr ==
    <<<<"zfspool:", "local-zfs">>, <<"pool", <<"rpool", "data">>>>,
      <<"sparse", <<>>>>, <<"content", <<"images", "rootdir">>>>>>

\* _Member.__repr__ (lines 138-148) of the member whose name is `name`.
NfsBlock(name) ==
    <<<<"nfs:", name>>, <<"path", CommonPath(name)>>, <<"server", Server>>,
      <<"export", CommonExport(name)>>, <<"content", NfsContent>>,
      <<"nodes", NfsNodes>>>>

BlankLine == <<"", <<>>>>

\* "\n".join(texts), each text ending with a newline: an empty line
\* between one text and the next.
RECURSIVE JoinNewline(_)
JoinNewline(texts) ==
    IF texts = <<>> THEN <<>>
    ELSE IF Len(texts) = 1 THEN texts[1]
    ELSE texts[1] \o <<BlankLine>> \o JoinNewline(Tail(texts))

\* _StorageNFS.__repr__ (lines 66-70).
NfsRepr ==
    JoinNewline([i \in 1..Len(NfsMembers) |-> NfsBlock(MemberName(NfsMembers[i]))])

\* _Storage.__repr__ (lines 38-40).
StorageRepr == JoinNewline(<<DirRepr, NfsRepr, ZfsRepr>>)

settingsFrame == <<syncVars, instVars, concVars, hostVars>>

\* PUBLIC_SETTINGS.storage.nfs.common.<fn>(name)
CallCommon(fn, name) ==
    /\ lookup' = [who |-> "common", fn |-> fn, name |-> name,
                  value |-> Common(fn, name), err |-> "none"]
    /\ UNCHANGED settingsFrame

\* PUBLIC_SETTINGS.storage.nfs.<m>.<fn>
ReadMember(m, fn) ==
    /\ lookup' = [who |-> m, fn |-> fn, name |-> MemberName(m),
                  value |-> Member(m, fn), err |-> "none"]
    /\ UNCHANGED settingsFrame

\* repr(PUBLIC_SETTINGS.storage)
ReprStorage ==
    /\ lookup' = [who |-> "storage", fn |-> "repr", name |-> <<>>,
                  value |-> StorageRepr, err |-> "none"]
    /\ UNCHANGED settingsFrame

\* The fields of _StorageNFSConfig (storage.py, lines 38-51) with their
\* defaults, as STORAGE_CONFIG.nfs has them.
StorageNfs ==
    [name |-> <<"qrt-share">>, path |-> <<"mnt", "pve", "qrt-share">>,
     server |-> Server, export |-> <<"mnt", "qrt-pool", "qrt-dataset">>,
     content |-> NfsContent, nodes |-> NfsNodes]

\* The attributes a caller reads from STORAGE_CONFIG.nfs.
StorageNfsAttrs == (DOMAIN StorageNfs) \cup {"qrt", "secrets"}

\* getattr(STORAGE_CONFIG.nfs, attr): the class has slots and defines the
\* six fields and __repr__, nothing else.
StorageNfsGet(attr) ==
    IF attr \in DOMAIN StorageNfs
    THEN [value |-> StorageNfs[attr], err |-> "none"]
    ELSE [value |-> <<>>, err |-> "AttributeError"]

\* _StorageNFSConfig.__repr__ (storage.py, lines 53-62).
StorageNfsRepr ==
    <<<<"nfs:", StorageNfs.name>>, <<"path", StorageNfs.path>>,
      <<"server", StorageNfs.server>>, <<"export", StorageNfs.export>>,
      <<"content", StorageNfs.content>>, <<"nodes", StorageNfs.nodes>>>>

\* STORAGE_CONFIG.nfs.<attr>
ReadStorageNfs(attr) ==
    /\ lookup' = [who |-> "STORAGE_CONFIG.nfs", fn |-> attr,
                  name |-> StorageNfs.name,
                  value |-> StorageNfsGet(attr).value,
                  err |-> StorageNfsGet(attr).err]
    /\ UNCHANGED settingsFrame

\* str(STORAGE_CONFIG): _StorageConfig.__repr__ (storage.py, lines 16-18);
\* the dir and zfspool blocks are those of the settings.
StrStorageConfig ==
    /\ lookup' = [who |-> "STORAGE_CONFIG", fn |-> "str", name |-> <<>>,
                  value |-> JoinNewline(<<DirRepr, StorageNfsRepr, ZfsRepr>>),
                  err |-> "none"]
    /\ UNCHANGED settingsFrame

\* The module settings is imported; nothing has been read.
InitSettings ==
    /\ SetOff
    /\ HostOff
    /\ SyncOff
    /\ InstOff
    /\ ConcOff

NextSettings ==
    \/ \E fn \in CommonFns, name \in NfsNames : CallCommon(fn, name)
    \/ \E i \in 1..Len(NfsMembers), fn \in CommonFns : ReadMember(NfsMembers[i], fn)
    \/ ReprStorage
    \/ \E attr \in StorageNfsAttrs : ReadStorageNfs(attr)
    \/ StrStorageConfig

SpecSettings == InitSettings /\ [][NextSettings]_vars

\* ------------------------------------------------- the flags of the installer

\* A string is the sequence of its characters; the text of a flag, of a
\* mode or of a version label has no space in it and no leading dash of its
\* own to lose, and stands as one character.  A command line is a string.
Space == " "

\* None where a string may stand (a version, the password).
NoString == <<None>>

Dash == "-"

\* The characters a password is made of here.
PasswordChars == {"x", Space, Dash}

MaxPasswordLen == 2

Passwords == UNION {[1..n -> PasswordChars] : n \in 0..MaxPasswordLen}

\* The store_true flags, in the order curl_public_install appends them
\* (lines 751-772), by the field of the settings each one sets.
BoolFlags ==
    <<<<"docker", "--docker">>, <<"skip_dev", "--skip-dev">>,
      <<"ib_gateway_docker", "--ib-gateway-docker">>,
      <<"gitlab", "--gitlab">>, <<"gitlab_runner", "--gitlab-runner">>,
      <<"postgres", "--postgres">>, <<"pypi", "--pypi">>,
      <<"redis", "--redis">>, <<"docker_registry", "--docker-registry">>,
      <<"force_recreate", "--force-recreate">>>>

BoolFields == {BoolFlags[i][1] : i \in 1..Len(BoolFlags)}

\* The flags that take a value, by the field each one sets.
ValueFlags ==
    <<<<"public_version", "--public-version">>,
      <<"installer_version", "--installer-version">>,
      <<"infra_version", "--infra-version">>,
      <<"mode", "--mode">>, <<"password", "--password">>>>

\* _PublicInstallerSettings (lines 62-78) with its defaults; `on` is the
\* set of the boolean fields that are true.
DefaultSettings ==
    [public_version |-> <<"0.5.53">>, installer_version |-> NoString,
     infra_version |-> NoString, mode |-> None, password |-> NoString,
     on |-> {}]

\* parts.extend([flag, value]) when the value is given.
Opt(flag, value, given) == IF given THEN <<<<flag>>, value>> ELSE <<>>

\* if <field>: parts.append(flag), for the flags i..j of BoolFlags.
RECURSIVE Switches(_, _, _)
Switches(on, i, j) ==
    IF i > j THEN <<>>
    ELSE (IF BoolFlags[i][1] \in on THEN <<<<BoolFlags[i][2]>>>> ELSE <<>>)
         \o Switches(on, i + 1, j)

\* Lines 743-772: the parts of curl_public_install.  The password is added
\* `if password`: when it is neither None nor empty.
CurlParts(a) ==
    <<<<"--public-version">>, a.public_version>>
    \o Opt("--installer-version", a.installer_version,
           a.installer_version # NoString)
    \o Opt("--infra-version", a.infra_version, a.infra_version # NoString)
    \o Opt("--mode", <<a.mode>>, a.mode # None)
    \o Switches(a.on, 1, 2)
    \o Opt("--password", a.password, a.password # NoString /\ a.password # <<>>)
    \o Switches(a.on, 3, Len(BoolFlags))

\* Lines 290-306: the parts of the command of _core_install.
CoreParts(a) ==
    <<<<"python3 -m">>, <<"public.install">>, <<"--mode">>, <<"core-in-repo">>,
      <<"--public-version">>, a.public_version>>
    \o Opt("--installer-version", a.installer_version,
           a.installer_version # NoString)
    \o Opt("--infra-version", a.infra_version, a.infra_version # NoString)
    \o Switches(a.on \cap {"docker", "skip_dev"}, 1, 2)

\* Lines 441-468: the parts of the command of _infra_install.
InfraParts(a) ==
    <<<<"python3 -m">>, <<"infra.install">>, <<"--public-version">>,
      a.public_version>>
    \o Opt("--installer-version", a.installer_version,
           a.installer_version # NoString)
    \o Opt("--infra-version", a.infra_version, a.infra_version # NoString)
    \o Switches(a.on \ {"docker"}, 2, Len(BoolFlags))

\* " ".join(parts)
RECURSIVE JoinSpace(_)
JoinSpace(parts) ==
    IF parts = <<>> THEN <<>>
    ELSE IF Len(parts) = 1 THEN parts[1]
    ELSE parts[1] \o <<Space>> \o JoinSpace(Tail(parts))

\* The words the shell makes of a command line (`python3 - {cmd}`, or the
\* string handed to check_output with shell=True): it is cut at every run
\* of spaces, nothing in it being quoted.
RECURSIVE ShellWords(_, _)
ShellWords(line, word) ==
    IF line = <<>> THEN (IF word = <<>> THEN <<>> ELSE <<word>>)
    ELSE IF Head(line) = Space
    THEN (IF word = <<>> THEN <<>> ELSE <<word>>) \o ShellWords(Tail(line), <<>>)
    ELSE ShellWords(Tail(line), Append(word, Head(line)))

\* The field a word sets when it is a flag of kind `flags`, "" otherwise.
FieldOf(flags, w) ==
    IF \E i \in 1..Len(flags) : w = <<flags[i][2]>>
    THEN flags[CHOOSE i \in 1..Len(flags) : w = <<flags[i][2]>>][1]
    ELSE ""

\* argparse takes a word for an option when it starts with a dash and is
\* longer than the dash alone.
LooksLikeOption(w) ==
    \/ FieldOf(BoolFlags, w) # ""
    \/ FieldOf(ValueFlags, w) # ""
    \/ Len(w) > 1 /\ w[1] = Dash

ModeChoices == {"public", "core", "core-in-repo", "infra", "password"}

\* Lines 80-123, parser.parse_args() on the words of the command line: a
\* store_true flag sets its field, a flag with a value takes the next word
\* (there must be one, and it must not look like an option), --mode takes
\* one of its choices only, and a word that is left over is an error
\* (argparse exits with status 2).
RECURSIVE ParseArgs(_, _)
ParseArgs(words, st) ==
    IF words = <<>> THEN [err |-> "none", settings |-> st]
    ELSE LET w == Head(words)
             b == FieldOf(BoolFlags, w)
             v == FieldOf(ValueFlags, w)
         IN  IF b # ""
             THEN ParseArgs(Tail(words), [st EXCEPT !.on = @ \cup {b}])
             ELSE IF v # ""
             THEN IF Len(words) < 2 \/ LooksLikeOption(words[2])
                  THEN [err |-> "SystemExit", settings |-> st]
                  ELSE IF v = "mode"
                  THEN IF \E m \in ModeChoices : words[2] = <<m>>
                       THEN ParseArgs(Tail(Tail(words)),
                                      [st EXCEPT !.mode = words[2][1]])
                       ELSE [err |-> "SystemExit", settings |-> st]
                  ELSE ParseArgs(Tail(Tail(words)), [st EXCEPT ![v] = words[2]])
             ELSE [err |-> "SystemExit", settings |-> st]

\* The arguments a caller gives to curl_public_install, _core_install and
\* _infra_install: versions, a mode, a password, and no boolean flag, one,
\* or all of them.
FlagArgs ==
    {a \in [public_version : {<<"0.5.53">>, <<"0.0.0">>},
            installer_version : {NoString, <<"0.5.53">>},
            infra_version : {NoString, <<"0.5.53">>},
            mode : ModeChoices \cup {None},
            password : Passwords \cup {NoString},
            on : {{}, BoolFields} \cup {{f} : f \in BoolFields}] :
        a.mode = "password" \/ a.password = NoString}

flagsFrame == <<syncVars, instVars, concVars, hostVars>>

\* The command curl_public_install(**a) returns is run: the shell hands
\* the words after `python3 -` to the installer, which parses them.
CurlThenParse(a) ==
    LET r == ParseArgs(ShellWords(JoinSpace(CurlParts(a)), <<>>), DefaultSettings)
    IN  /\ lookup = NoLookup
        /\ lookup' = [who |-> "curl_public_install", fn |-> "parse",
                      name |-> a, value |-> r.settings, err |-> r.err]
        /\ UNCHANGED flagsFrame

\* _core_install(**a) builds its command; the words after the module name
\* are parsed by the installer it starts.
CoreThenParse(a) ==
    LET ws == ShellWords(JoinSpace(CoreParts(a)), <<>>)
        r == ParseArgs(SubSeq(ws, 3, Len(ws)), DefaultSettings)
    IN  /\ lookup = NoLookup
        /\ lookup' = [who |-> "_core_install", fn |-> "parse",
                      name |-> a, value |-> r.settings, err |-> r.err]
        /\ UNCHANGED flagsFrame

\* _infra_install(**a) builds its command; the words after the module name
\* are what infra.install is given.
InfraCommand(a) ==
    LET ws == ShellWords(JoinSpace(InfraParts(a)), <<>>)
        r == ParseArgs(SubSeq(ws, 3, Len(ws)), DefaultSettings)
    IN  /\ lookup = NoLookup
        /\ lookup' = [who |-> "_infra_install", fn |-> "parse",
                      name |-> a, value |-> r.settings, err |-> r.err]
        /\ UNCHANGED flagsFrame

InitFlags ==
    /\ SetOff
    /\ HostOff
    /\ SyncOff
    /\ InstOff
    /\ ConcOff

NextFlags ==
    \/ \E a \in FlagArgs : CurlThenParse(a)
    \/ \E a \in FlagArgs : a.password = NoString /\ CoreThenParse(a)
    \/ \E a \in FlagArgs : a.password = NoString /\ InfraCommand(a)

SpecFlags == InitFlags /\ [][NextFlags]_vars

\* ------------------------------------------------- the sources of Proxmox

\* The files that may lie in /etc/apt/sources.list.d, by stem.
SourceFiles == {"ceph", "pve-enterprise", "debian"}

\* The names the three implementations go through, in order.
ProxmoxNames == <<"ceph", "pve-enterprise">>

Implementations == {"install", "setup-infra", "setup-vm"}

\* _prepend_sudo_if_not_root.
PrependSudoIfNotRoot(cmd, root) == IF root THEN cmd ELSE <<"sudo">> \o cmd

\* any(...) of a list of booleans.
AnyTrue(bs) == \E i \in 1..Len(bs) : bs[i]

\* Whether removing a file of /etc can fail: it cannot for root.
UnlinkOutcomes(root) == IF root THEN {TRUE} ELSE BOOLEAN

\* One call of func (install.py) or of _setup_proxmox_apt_remove: the file
\* is removed if it exists, and the call tells whether it existed; `ok` is
\* whether the removal is permitted.  `lazy` is how the results are
\* consumed: any() over a generator asks for the next name only while no
\* result was true; list(map(...)) goes through every name first.
RemoveSource(w, lazy, ok) ==
    /\ host.who = w
    /\ host.pc = "remove"
    /\ LET name == ProxmoxNames[host.idx]
           there == name \in host.sources
           removed == Append(host.removed, there)
           atEnd == host.idx = Len(ProxmoxNames)
       IN  /\ ok \in UnlinkOutcomes(host.root)
           /\ IF there /\ ~ok
              THEN host' = [host EXCEPT !.pc = "failed"]
              ELSE host' = [host EXCEPT
                       !.sources = @ \ {name},
                       !.removed = removed,
                       !.idx = IF atEnd THEN @ ELSE @ + 1,
                       !.pc = IF lazy /\ there THEN "update"
                              ELSE IF ~atEnd THEN "remove"
                              ELSE IF AnyTrue(removed) THEN "update"
                              ELSE "done"]
    /\ UNCHANGED <<syncVars, instVars, concVars, setVars>>

\* install.py, lines 637-644: removed = list(map(func, [...])), "run both".
SetupProxmoxSourcesFunc(ok) == RemoveSource("install", FALSE, ok)

\* setup-infra.py, lines 457-459 and 464-470.
SetupProxmoxAptRemove(ok) == RemoveSource("setup-infra", TRUE, ok)

\* setup-vm-using-python.py, lines 188-190 and 195-202.
VmSetupProxmoxAptRemove(ok) == RemoveSource("setup-vm", TRUE, ok)

\* The command of apt_update (install.py) and of _update_apt (the scripts).
AptUpdateCmd(w, root) ==
    IF w = "install" THEN <<"apt", "update">>
    ELSE PrependSudoIfNotRoot(<<"apt", "update">>, root)

\* `if any(removed): apt_update()`: check_call raises on a nonzero exit.
UpdateApt(exit) ==
    /\ host.who \in Implementations
    /\ host.pc = "update"
    /\ host' = [host EXCEPT
           !.ran = Append(@, [cmd |-> AptUpdateCmd(host.who, host.root),
                              exit |-> exit]),
           !.pc = IF exit = 0 THEN "done" ELSE "failed"]
    /\ UNCHANGED <<syncVars, instVars, concVars, setVars>>

\* One of the three implementations is called, on any set of files.
InitProxmox ==
    /\ \E w \in Implementations, root \in BOOLEAN, fs \in SUBSET SourceFiles :
           host = [who |-> w, pc |-> "remove", idx |-> 1, root |-> root,
                   sources |-> fs, before |-> fs, removed |-> <<>>,
                   ran |-> <<>>]
    /\ SyncOff
    /\ InstOff
    /\ ConcOff
    /\ SetOff

NextProxmox ==
    \/ \E ok \in BOOLEAN : SetupProxmoxSourcesFunc(ok)
    \/ \E ok \in BOOLEAN : SetupProxmoxAptRemove(ok)
    \/ \E ok \in BOOLEAN : VmSetupProxmoxAptRemove(ok)
    \/ \E exit \in {0, 100} : UpdateApt(exit)

SpecProxmox == InitProxmox /\ [][NextProxmox]_vars

\* ---------------------------------------------- encrypt.py and decrypt.py

\* A file name is a sequence of pieces: "." and words without a dot.
Dot == "."

NameWords == {"a", "txt", "enc"}

MaxSuffixes == 3

DotEnc == <<Dot, "enc">>

\* The names word(.word)*, with at most MaxSuffixes suffixes.
FileNames ==
    {n \in UNION {[1..(2 * k + 1) -> NameWords \cup {Dot}] : k \in 0..MaxSuffixes} :
        \A i \in DOMAIN n : (n[i] = Dot) <=> (i % 2 = 0)}

\* str.rfind("."), counted from 1; 0 when there is no dot.
RFindDot(name) ==
    LET is == {i \in 1..Len(name) : name[i] = Dot}
    IN  IF is = {} THEN 0 ELSE CHOOSE i \in is : \A j \in is : j <= i

\* PurePath.suffix.
Suffix(name) ==
    LET i == RFindDot(name)
    IN  IF 1 < i /\ i < Len(name) THEN SubSeq(name, i, Len(name)) ELSE <<>>

\* PurePath.stem.
Stem(name) ==
    LET i == RFindDot(name)
    IN  IF 1 < i /\ i < Len(name) THEN SubSeq(name, 1, i - 1) ELSE name

\* str.lstrip(".").
RECURSIVE LStripDots(_)
LStripDots(name) ==
    IF name # <<>> /\ name[1] = Dot THEN LStripDots(Tail(name)) ELSE name

\* str.split("."): `cur` is the piece being read.
RECURSIVE SplitDot(_, _)
SplitDot(name, cur) ==
    IF name = <<>> THEN <<cur>>
    ELSE IF name[1] = Dot THEN <<cur>> \o SplitDot(Tail(name), <<>>)
    ELSE SplitDot(Tail(name), Append(cur, name[1]))

\* PurePath.suffixes.
Suffixes(name) ==
    IF name # <<>> /\ name[Len(name)] = Dot THEN <<>>
    ELSE LET pieces == Tail(SplitDot(LStripDots(name), <<>>))
         IN  [i \in 1..Len(pieces) |-> <<Dot>> \o pieces[i]]

\* "".join(...).
RECURSIVE JoinEmpty(_)
JoinEmpty(ss) == IF ss = <<>> THEN <<>> ELSE ss[1] \o JoinEmpty(Tail(ss))

\* PurePath.with_suffix: the last suffix is replaced; an empty suffix
\* removes it.
WithSuffix(name, suffix) ==
    IF Stem(name) = <<>>
    THEN [value |-> <<>>, err |-> "ValueError"]
    ELSE IF suffix # <<>> /\ ~(suffix[1] = Dot /\ Len(suffix) > 1)
    THEN [value |-> <<>>, err |-> "ValueError"]
    ELSE [value |-> Stem(name) \o suffix, err |-> "none"]

\* encrypt.py, line 61: path.with_name(f"{path.name}.enc").
EncryptedName(name) == name \o DotEnc

\* decrypt.py, lines 41-52, for one path: the name of the output, <<>>
\* when the path is skipped.
DecryptedName(name, isFile) ==
    IF ~isFile THEN [value |-> <<>>, err |-> "none"]
    ELSE IF Suffixes(name) = <<>> THEN [value |-> <<>>, err |-> "IndexError"]
    ELSE IF Suffixes(name)[Len(Suffixes(name))] # DotEnc
    THEN [value |-> <<>>, err |-> "none"]
    ELSE WithSuffix(name, JoinEmpty(SubSeq(Suffixes(name), 1,
                                           Len(Suffixes(name)) - 1)))

cryptFrame == <<syncVars, instVars, concVars, hostVars>>

\* encrypt.py encrypts the file p, and decrypt.py is given what it wrote.
EncryptThenDecrypt(p) ==
    LET r == DecryptedName(EncryptedName(p), TRUE)
    IN  /\ lookup = NoLookup
        /\ lookup' = [who |-> "encrypt", fn |-> "decrypt",
                      name |-> [path |-> p, is_file |-> TRUE],
                      value |-> r.value, err |-> r.err]
        /\ UNCHANGED cryptFrame

\* decrypt.py is given any path, a file or not.
Decrypt(p, isFile) ==
    LET r == DecryptedName(p, isFile)
    IN  /\ lookup = NoLookup
        /\ lookup' = [who |-> "decrypt", fn |-> "main",
                      name |-> [path |-> p, is_file |-> isFile],
                      value |-> r.value, err |-> r.err]
        /\ UNCHANGED cryptFrame

InitCrypt ==
    /\ SetOff
    /\ HostOff
    /\ SyncOff
    /\ InstOff
    /\ ConcOff

NextCrypt ==
    \/ \E p \in FileNames : EncryptThenDecrypt(p)
    \/ \E p \in FileNames, isFile \in BOOLEAN : Decrypt(p, isFile)

SpecCrypt == InitCrypt /\ [][NextCrypt]_vars

\* ------------------------------------------- the rc file and the key file

\* The text of a file is a sequence of pieces: NL ends a line, every other
\* piece is a run of characters without a line end.
NL == "\n"

MaxFileLen == 4

MaxCalls == 2

LinePieces == {"a", "b"}

\* The texts of at most n pieces.
Texts(n) == UNION {[1..k -> LinePieces \cup {NL}] : k \in 0..n}

\* str.splitlines(): the lines without their ends; a last line needs no
\* end, and an end at the very end opens no new line.  `cur` is the line
\* being read, `open` whether it has begun.
RECURSIVE SplitLines(_, _, _)
SplitLines(text, cur, open) ==
    IF text = <<>> THEN (IF open THEN <<cur>> ELSE <<>>)
    ELSE IF text[1] = NL THEN <<cur>> \o SplitLines(Tail(text), <<>>, FALSE)
    ELSE SplitLines(Tail(text), Append(cur, text[1]), TRUE)

\* The lines of a file that exists.
Lines(text) == SplitLines(text, <<>>, FALSE)

DuplicateFree(ls) == \A i, j \in 1..Len(ls) : ls[i] = ls[j] => i = j

\* A file that does not exist.
Missing == [exists |-> FALSE, text |-> <<>>]

\* The files a run may find: none, or one in which no line occurs twice.
StartFiles ==
    {Missing} \cup {[exists |-> TRUE, text |-> t] :
                       t \in {u \in Texts(MaxFileLen) : DuplicateFree(Lines(u))}}

\* _append_to_file(line, path) of setup-infra.py, _append_to_rc(line) of
\* setup-vm-using-python.py: the file afterwards.
AppendLine(line, file) ==
    IF ~file.exists
    THEN [exists |-> TRUE, text |-> line \o <<NL>>]
    ELSE IF \E i \in 1..Len(Lines(file.text)) : Lines(file.text)[i] = line
    THEN file
    ELSE [file EXCEPT !.text = @ \o line \o <<NL>>]

\* A loop `for line in lines: _append_to_file(line, path)`.
RECURSIVE AppendLines(_, _)
AppendLines(lines, file) ==
    IF lines = <<>> THEN file
    ELSE AppendLines(Tail(lines), AppendLine(lines[1], file))

Shells == {"bash", "zsh"}

\* The lines of setup_rc, each a single piece.
RcLines(shell) ==
    << <<"alias ~">>, <<"alias ..">>, <<"alias ...">>, <<"alias ....">>,
       <<"alias bashrc">>, <<"alias gb">>, <<"alias gc">>, <<"alias gd">>,
       <<"alias gf">>, <<"alias gl">>, <<"alias gp">>, <<"alias gpw">>,
       <<"alias gs">>, <<"alias l">>, <<"alias zshrc">>,
       <<"export EDITOR">>, <<"export PATH">>,
       IF shell = "bash" THEN <<"set -o vi">> ELSE <<"bindkey -v">> >>

\* What the download of ssh-keys.txt may hold.
KeyTexts ==
    {<<"a", NL, "b", NL>>, <<"a", NL, "b">>, <<"b", NL, NL, "a", NL>>}

SSHKeysModes == {"overwrite", "append"}

\* A call is recorded with the file before and after it.
Called(op, arg, after) ==
    /\ host.pc = "idle"
    /\ Len(host.hist) < MaxCalls
    /\ host' = [host EXCEPT
           !.file = after,
           !.hist = Append(@, [op |-> op, arg |-> arg, before |-> host.file,
                               after |-> after])]
    /\ UNCHANGED <<syncVars, instVars, concVars, setVars>>

\* setup-infra.py, _append_to_file(line, path).
AppendToFile(line) ==
    /\ host.who = "setup-infra"
    /\ Called("_append_to_file", line, AppendLine(line, host.file))

\* setup-vm-using-python.py, _append_to_rc(line).
AppendToRc(line) ==
    /\ host.who = "setup-vm"
    /\ host.path = "rc"
    /\ Called("_append_to_rc", line, AppendLine(line, host.file))

\* setup-infra.py, setup_rc().
SetupRc ==
    /\ host.who = "setup-infra"
    /\ host.path = "rc"
    /\ Called("setup_rc", <<>>, AppendLines(RcLines(host.shell), host.file))

\* setup-infra.py, setup_ssh_keys(mode=mode), the download holding `text`.
SetupSshKeys(mode, text) ==
    /\ host.who = "setup-infra"
    /\ host.path = "authorized_keys"
    /\ Called("setup_ssh_keys", <<mode, text>>,
              IF mode = "overwrite"
              THEN [exists |-> TRUE, text |-> text]
              ELSE AppendLines(Lines(text), host.file))

\* A script is about to work on a file.
InitAppend ==
    /\ \E w \in {"setup-infra", "setup-vm"}, path \in {"rc", "authorized_keys"},
          shell \in Shells, f \in StartFiles :
           /\ w = "setup-vm" => path = "rc"
           /\ host = [who |-> w, pc |-> "idle", path |-> path, shell |-> shell,
                      file |-> f, hist |-> <<>>]
    /\ SyncOff
    /\ InstOff
    /\ ConcOff
    /\ SetOff

NextAppend ==
    \/ \E line \in Texts(1) \ {<<NL>>} : AppendToFile(line)
    \/ \E line \in Texts(1) \ {<<NL>>} : AppendToRc(line)
    \/ SetupRc
    \/ \E mode \in SSHKeysModes, text \in KeyTexts : SetupSshKeys(mode, text)

SpecAppend == InitAppend /\ [][NextAppend]_vars

\* ---------------------------------------- main of setup-vm-using-python.py

\* The tools the flags --git, --just and --vim ask for.
VmTools == {"git", "just", "vim"}

\* The steps of main, in order; the downloads of bottom, delta and direnv
\* are left out.
VmSteps == <<"rc", "proxmox_apt", "git", "just", "vim", "done">>

\* The step after `step`.
VmNext(step) ==
    VmSteps[1 + CHOOSE i \in 1..(Len(VmSteps) - 1) : VmSteps[i] = step]

\* Settings and its __post_init__: --git or --vim turns proxmox_apt on.
VmSettings ==
    {[on |-> s, proxmox_apt |-> p \/ "git" \in s \/ "vim" \in s] :
        s \in SUBSET VmTools, p \in BOOLEAN}

\* check_call(cmd): the command is run, by sudo unless root.
VmRan(cmd, exit) == [cmd |-> PrependSudoIfNotRoot(cmd, host.root), exit |-> exit]

\* The exit codes of a command.
VmExits == {0, 100}

\* _setup_aliases, _setup_editing_mode, _setup_env_vars write to the rc
\* file of the shell; Shell.get() raises for another shell than bash or zsh.
VmSetupRc ==
    /\ host.who = "vm-main"
    /\ host.pc = "rc"
    /\ host' = [host EXCEPT
           !.pc = IF host.shell \in Shells THEN VmNext("rc") ELSE "failed"]
    /\ UNCHANGED <<syncVars, instVars, concVars, setVars>>

\* `if settings.proxmox_apt: _setup_proxmox_apt()`: apt update is run when
\* a source file was removed.
VmProxmoxApt(anyRemoved, exit) ==
    /\ host.who = "vm-main"
    /\ host.pc = "proxmox_apt"
    /\ IF host.settings.proxmox_apt /\ anyRemoved
       THEN host' = [host EXCEPT
                !.ran = Append(@, VmRan(<<"apt", "update">>, exit)),
                !.pc = IF exit = 0 THEN VmNext("proxmox_apt") ELSE "failed"]
       ELSE host' = [host EXCEPT !.pc = VmNext("proxmox_apt")]
    /\ UNCHANGED <<syncVars, instVars, concVars, setVars>>

\* `if settings.<tool>: _setup_<tool>()`, where _setup_<tool> returns if
\* _has_command(probe), and otherwise runs apt update and
\* apt install -y <package>.
VmSetupTool(tool, probe, package, updated, installed) ==
    /\ host.who = "vm-main"
    /\ host.pc = tool
    /\ LET update == VmRan(<<"apt", "update">>, updated)
           install == VmRan(<<"apt", "install", "-y", package>>, installed)
       IN  host' =
               IF tool \notin host.settings.on \/ probe \in host.installed
               THEN [host EXCEPT !.at[tool] = host.installed,
                                 !.pc = VmNext(tool)]
               ELSE IF updated # 0
               THEN [host EXCEPT !.at[tool] = host.installed,
                                 !.ran = Append(@, update),
                                 !.pc = "failed"]
               ELSE IF installed # 0
               THEN [host EXCEPT !.at[tool] = host.installed,
                                 !.ran = @ \o <<update, install>>,
                                 !.pc = "failed"]
               ELSE [host EXCEPT !.at[tool] = host.installed,
                                 !.ran = @ \o <<update, install>>,
                                 !.installed = @ \cup {package},
                                 !.pc = VmNext(tool)]
    /\ UNCHANGED <<syncVars, instVars, concVars, setVars>>

\* Lines 169-175.
VmSetupGit(updated, installed) ==
    VmSetupTool("git", "git", "git", updated, installed)

\* Lines 178-184.
VmSetupJust(updated, installed) ==
    VmSetupTool("just", "git", "git", updated, installed)

\* Lines 205-211.
VmSetupVim(updated, installed) ==
    VmSetupTool("vim", "git", "vim", updated, installed)

\* main is called with any settings, on a machine with any of the tools.
InitVm ==
    /\ \E st \in VmSettings, have \in SUBSET VmTools, root \in BOOLEAN,
          shell \in Shells \cup {"fish"} :
           host = [who |-> "vm-main", pc |-> "rc", settings |-> st,
                   root |-> root, shell |-> shell, installed |-> have,
                   at |-> [t \in VmTools |-> {}], ran |-> <<>>]
    /\ SyncOff
    /\ InstOff
    /\ ConcOff
    /\ SetOff

NextVm ==
    \/ VmSetupRc
    \/ \E anyRemoved \in BOOLEAN, exit \in VmExits : VmProxmoxApt(anyRemoved, exit)
    \/ \E u, i \in VmExits : VmSetupGit(u, i)
    \/ \E u, i \in VmExits : VmSetupJust(u, i)
    \/ \E u, i \in VmExits : VmSetupVim(u, i)

SpecVm == InitVm /\ [][NextVm]_vars

\* ------------------------------------------------------------ the subnet

\* types.py: the members of Subnet, in order.
SUBNETS == <<"qrt", "main", "test">>

\* What the variable SUBNET may hold when it is set.
SubnetValues ==
    {"qrt", "main", "test", "", "QRT", "Main", "main ", "prod", "qrt,main",
     "50"}

\* network.vlan.main of the settings.
VlanMain == 50

\* network.vlan.test of the settings: another number.
VlanTests == {51, 60}

\* The third number of an IPv4 address.
Octets == 0..255

\* os.environ without SUBNET.
Unset == "<unset>"

\* get_subnet of utilities.py.
get_subnet(env) ==
    IF env = Unset THEN [value |-> "none", err |-> "RuntimeError"]
    ELSE IF \E i \in 1..Len(SUBNETS) : SUBNETS[i] = env
    THEN [value |-> env, err |-> "none"]
    ELSE [value |-> "none", err |-> "RuntimeError"]

\* _get_subnet_from_ip of install.py: `third` is the third number of the
\* address the machine reaches 1.1.1.1 from.
GetSubnetFromIp(env, third, vlanTest) ==
    IF env = Unset
    THEN IF third = VlanMain THEN [value |-> "main", err |-> "none"]
         ELSE IF third = vlanTest THEN [value |-> "test", err |-> "none"]
         ELSE [value |-> "none", err |-> "ValueError"]
    ELSE IF env = "main" \/ env = "test"
    THEN [value |-> env, err |-> "none"]
    ELSE [value |-> "none", err |-> "ValueError"]

subnetFrame == <<syncVars, instVars, concVars, hostVars>>

\* Both resolvers are called in one environment.
ResolveSubnet(env, third, vlanTest) ==
    /\ lookup = NoLookup
    /\ lookup' = [who |-> "subnet", fn |-> "resolve",
                  name |-> [env |-> env, third |-> third, test |-> vlanTest],
                  value |-> [install |-> GetSubnetFromIp(env, third, vlanTest),
                             utilities |-> get_subnet(env)],
                  err |-> "none"]
    /\ UNCHANGED subnetFrame

\* SUBNET is set: the address is not looked at.
ResolveFromEnv(env) ==
    \E vlanTest \in VlanTests : ResolveSubnet(env, 0, vlanTest)

\* SUBNET is not set.
ResolveFromIp(third, vlanTest) == ResolveSubnet(Unset, third, vlanTest)

InitSubnet ==
    /\ SetOff
    /\ HostOff
    /\ SyncOff
    /\ InstOff
    /\ ConcOff

NextSubnet ==
    \/ \E env \in SubnetValues : ResolveFromEnv(env)
    \/ \E third \in Octets, vlanTest \in VlanTests : ResolveFromIp(third, vlanTest)

SpecSubnet == InitSubnet /\ [][NextSubnet]_vars

\* ------------------------------------------------------------ properties

\* An invocation has returned normally and nothing has happened since.
Succeeded == pc = "idle" /\ result = "ok"

\* An invocation has ended, normally or not, and nothing has happened since.
Ended == pc = "idle" /\ result # "none"

\* The command `cmd` was run by the invocation.
HasCmd(cmd) == \E i \in 1..Len(trace) : trace[i].cmd = cmd

\* The path a name of submodule_versions resolves to (when it is one path).
PathOf(name) == CHOOSE p \in SubPaths : p \in SubmodulePathsOf(name)

\* The submodule at path p has no requested version label.
Unlabelled(p) ==
    \A i \in 1..Len(Labelled(subVersions)) :
        p \notin SubmodulePathsOf(Labelled(subVersions)[i][1])

\* C1.  Idempotence: when an invocation succeeds for the second time in
\* succession with the same arguments and no remote has changed since the
\* first, the superproject HEAD and the HEAD of every submodule are those
\* the first invocation left.
C1_Idempotent ==
    (Succeeded /\ streak = 2) => (head = last.head /\ sHead = last.sHead)

\* A second successive success of _clone_repo with a version and a labelled
\* submodule, away from the remote's tip.
C1_Witness ==
    /\ Succeeded
    /\ streak = 2
    /\ entry = "clone_repo"
    /\ version # None
    /\ Labelled(subVersions) # <<>>
    /\ head # rTip

\* C2.  With a version label v, a successful _update_code leaves the
\* superproject HEAD at the commit v resolves to.
C2_HeadAtVersion ==
    (Succeeded /\ version # None) => head = TagCommit(version)

\* A success with a version that is neither the remote's tip nor the local
\* default branch, on a target that existed before.
C2_Witness ==
    /\ Succeeded
    /\ version # None
    /\ existedAtStart
    /\ head # rTip
    /\ head # lBranch

\* C3.  With no version label, a successful _update_code leaves the
\* superproject HEAD at the tip of the remote's default branch.
C3_HeadAtRemoteTip ==
    (Succeeded /\ version = None) => head = rTip

\* C4 as claimed.  After a success every submodule without a requested label
\* is at the commit the checked-out superproject tree records for it.
C4_AtRecordedCommit ==
    Succeeded =>
        \A p \in SubPaths : Unlabelled(p) => sHead[p] = Gitlink(head, p)

\* C4 as amended.  After a success every submodule without a requested label
\* is at the tip of its own local default branch, as the reset_pull of line
\* 707 left it, and that branch contains the tip of the submodule's remote.
C4_AtOwnDefaultBranch ==
    Succeeded =>
        \A p \in SubPaths :
            Unlabelled(p) =>
                /\ sHead[p] = sBranch[p]
                /\ Ancestor(sTip[p], sBranch[p])

\* A success with a version, in which a submodule without a label is not at
\* the commit the superproject records for it.
C4_Witness ==
    /\ Succeeded
    /\ version # None
    /\ \E p \in SubPaths : Unlabelled(p) /\ sHead[p] # Gitlink(head, p)

\* The items of submodule_versions the loop of lines 713-719 visits.
Pins == Labelled(subVersions)

\* The checkout of item i of the loop can succeed: its name resolves to one
\* path and the submodule has the label.
Pinnable(i) ==
    /\ Cardinality(SubmodulePathsOf(Pins[i][1])) = 1
    /\ SubTagCommit(Pins[i][2]) # 0

\* The pin of the submodule `name` was run by the invocation.
RanPin(name) ==
    \E i \in 1..Len(trace) : trace[i] = [cmd |-> "pin", arg |-> name]

\* C5 as claimed.  Submodule pins are independent: whenever an invocation
\* that entered the pin loop has ended, every labelled submodule whose own
\* checkout can succeed is at its label, whatever happened to the others.
C5_PinsIndependent ==
    (Ended /\ HasCmd("pin")) =>
        \A i \in 1..Len(Pins) :
            Pinnable(i) => sHead[PathOf(Pins[i][1])] = SubTagCommit(Pins[i][2])

\* C5 as amended.  The pins are applied in the order of the map and the
\* first failing checkout ends the invocation: the submodules before it are
\* at their labels, and for those after it no checkout is run, they stay on
\* their default branch.
C5_PinsStopAtFirstFailure ==
    (Ended /\ HasCmd("pin")) =>
        /\ \A i \in 1..Len(Pins) :
               i < pinIdx =>
                   /\ Pinnable(i)
                   /\ sHead[PathOf(Pins[i][1])] = SubTagCommit(Pins[i][2])
        /\ result = "ok" => pinIdx = Len(Pins) + 1
        /\ result # "ok" =>
               /\ pinIdx <= Len(Pins)
               /\ ~Pinnable(pinIdx)
               /\ \A i \in 1..Len(Pins) :
                      i > pinIdx =>
                          /\ ~RanPin(Pins[i][1])
                          /\ sHead[PathOf(Pins[i][1])]
                                 = sBranch[PathOf(Pins[i][1])]

\* The first pin has failed, and the second, whose label exists, was not
\* applied.
C5_Witness ==
    /\ Ended
    /\ result = "UnknownRevision"
    /\ HasCmd("pin")
    /\ pinIdx = 1
    /\ Len(Pins) = 2
    /\ Pinnable(2)
    /\ sHead[PathOf(Pins[2][1])] # SubTagCommit(Pins[2][2])

Diverged(a, b) == ~Ancestor(a, b) /\ ~Ancestor(b, a)

\* C7.  When the local default branch has diverged from the remote's, the
\* reset_pull ends the invocation in an error: the local default branch
\* stays at its commit (no merge, no rebase) and no later step runs, the
\* submodules are left as they were.
C7_DivergedIsFatal ==
    [][(pc = "reset_pull" /\ GitRuns /\ Diverged(lBranch, rTip)) =>
           /\ pc' = "idle"
           /\ result' \in {"DivergedHistory", "NetworkFailure"}
           /\ lBranch' = lBranch
           /\ <<sInit, sHead, sBranch>>' = <<sInit, sHead, sBranch>>]_vars

\* An invocation on an existing working copy has ended at the pull, refused
\* for diverged histories.
C7_Witness ==
    /\ Ended
    /\ result = "DivergedHistory"
    /\ existedAtStart
    /\ trace[Len(trace)].cmd = "reset_pull"
    /\ Diverged(lBranch, rTip)

\* C8.  _clone_repo runs the clone exactly when the target did not exist
\* when it was called, and at most once; a target that existed exists ever
\* after.
C8_CloneIffAbsent ==
    entry = "clone_repo" =>
        /\ HasCmd("clone") => ~existedAtStart
        /\ (/\ ~existedAtStart
            /\ pc \notin {"install_git", "clone"}
            /\ result # "ToolingUnavailable") => HasCmd("clone")
        /\ existedAtStart => exists
        /\ Cardinality({i \in 1..Len(trace) : trace[i].cmd = "clone"}) <= 1

\* _clone_repo has succeeded on a target that existed, without a clone.
C8_Witness ==
    /\ Succeeded
    /\ entry = "clone_repo"
    /\ existedAtStart
    /\ ~HasCmd("clone")
    /\ HasCmd("reset_pull")

\* The place of a command in the order of the steps.
Rank(cmd) ==
    CASE cmd = "apt" -> 0
      [] cmd = "clone" -> 1
      [] cmd = "reset_pull" -> 2
      [] cmd = "submodule_update" -> 3
      [] cmd = "submodule_foreach" -> 4
      [] cmd = "checkout_version" -> 5
      [] cmd = "pin" -> 6

\* The place of a name in submodule_versions.
NameIdx(name) ==
    CHOOSE i \in 1..Len(subVersions) : subVersions[i][1] = name

\* C9.  The commands of one invocation run in the fixed order clone,
\* reset_pull, submodule update, submodule foreach, version checkout,
\* submodule pins (these in the order of the map); none runs twice and none
\* runs after a later one.
C9_StepsInOrder ==
    \A i, j \in 1..Len(trace) :
        i < j =>
            \/ Rank(trace[i].cmd) < Rank(trace[j].cmd)
            \/ /\ trace[i].cmd = "pin"
               /\ trace[j].cmd = "pin"
               /\ NameIdx(trace[i].arg) < NameIdx(trace[j].arg)

\* A successful invocation that ran every step: the clone, the three
\* commands of the synchronization, the version checkout and two pins.
C9_Witness ==
    /\ Succeeded
    /\ HasCmd("clone")
    /\ HasCmd("checkout_version")
    /\ Len(Pins) = 2
    /\ Len(trace) >= 7

\* The commands of the invocation after the installation of git.
GitCmds == SelectSeq(trace, LAMBDA e : e.cmd # "apt")

\* C10.  Every invocation of _clone_repo applies the synchronization: a
\* successful one has run reset_pull, submodule update and submodule
\* foreach; on a target that existed the first git command is reset_pull,
\* and after a clone the next command is reset_pull.
C10_AlwaysSynchronises ==
    entry = "clone_repo" =>
        /\ Succeeded =>
               /\ HasCmd("reset_pull")
               /\ HasCmd("submodule_update")
               /\ HasCmd("submodule_foreach")
        /\ (existedAtStart /\ GitCmds # <<>>) => GitCmds[1].cmd = "reset_pull"
        /\ \A i \in 1..Len(trace) :
               (trace[i].cmd = "clone" /\ i < Len(trace)) =>
                   trace[i + 1].cmd = "reset_pull"

\* _clone_repo has succeeded on a target that existed, pinned at a version,
\* and began with reset_pull.
C10_Witness ==
    /\ Succeeded
    /\ entry = "clone_repo"
    /\ existedAtStart
    /\ version # None
    /\ trace[1].cmd = "reset_pull"

\* The which("git") of line 495 was evaluated by this invocation.
Preflighted == entry = "clone_repo"

\* C11.  Preflight precedes every git command: whenever an invocation has
\* run a git command in the working copy, on either entry (_clone_repo, or
\* _update_code called directly), the presence of git was checked by it and
\* git is installed.
C11_PreflightBeforeGit ==
    (GitCmds # <<>> /\ exists) => (Preflighted /\ gitInstalled)

\* The item of the loop of lines 713-719 that failed, if one did.
FailedPin(j) ==
    /\ RanPin(Pins[j][1])
    /\ ~Pinnable(j)

\* C12.  Errors are not swallowed: an invocation in which a command has
\* exited non-zero is over, with an error, and that command is the last it
\* ran.  A version the superproject does not have fails the invocation at
\* the version checkout (UnknownRevision) and no submodule pin is run; a
\* pin that cannot succeed is the last command of a failed invocation.
C12_ErrorsPropagate ==
    /\ result \notin {"none", "ok"} => pc = "idle"
    /\ (HasCmd("checkout_version") /\ TagCommit(version) = 0) =>
           /\ pc = "idle"
           /\ result = "UnknownRevision"
           /\ trace[Len(trace)].cmd = "checkout_version"
           /\ ~HasCmd("pin")
    /\ \A j \in 1..Len(Pins) :
           FailedPin(j) =>
               /\ pc = "idle"
               /\ result \notin {"none", "ok"}
               /\ trace[Len(trace)] = [cmd |-> "pin", arg |-> Pins[j][1]]
    /\ result = "ok" =>
           /\ version # None => TagCommit(version) # 0
           /\ \A j \in 1..Len(Pins) : Pinnable(j)

\* An invocation has failed at the checkout of a version that does not
\* exist, with a labelled submodule whose pin could have succeeded.
C12_Witness ==
    /\ Ended
    /\ result = "UnknownRevision"
    /\ trace[Len(trace)].cmd = "checkout_version"
    /\ Len(Pins) >= 1
    /\ Pinnable(1)
    /\ sHead[PathOf(Pins[1][1])] # SubTagCommit(Pins[1][2])

\* C14.  A pin whose name matches no path, or more than one, in the output
\* of `git submodule status` ends the invocation in an error, and no
\* checkout is performed: every submodule HEAD stays where it was.
C14_UnresolvedNameIsFatal ==
    [][(/\ pc = "pin"
        /\ pinIdx <= Len(Pins)
        /\ Cardinality(SubmodulePathsOf(Pins[pinIdx][1])) # 1) =>
           /\ pc' = "idle"
           /\ result' \notin {"none", "ok"}
           /\ sHead' = sHead]_vars

\* An invocation has failed at the pin of a name that matches both
\* submodule paths, and both submodules are still on their default branch.
C14_Witness ==
    /\ Ended
    /\ result = "SubmoduleResolutionAmbiguous"
    /\ trace[Len(trace)].cmd = "pin"
    /\ Cardinality(SubmodulePathsOf(trace[Len(trace)].arg)) = 2
    /\ \A p \in SubPaths : sHead[p] = sBranch[p]

\* The submodule with HEAD h and local default branch b, whose remote is at
\* tip, is as reset_pull leaves it: on its default branch, which contains
\* the remote's tip.
ResetAndPulled(h, b, tip) == h = b /\ Ancestor(tip, b)

\* C16.  The reset_pull of step 3 reaches every submodule at every depth,
\* after the submodule update and before any version pin: when the version
\* checkout is about to run, every submodule of the superproject and the
\* nested submodule are on their default branch, which contains their
\* remote's tip; the nested submodule stays so to the end; and no version
\* checkout or pin runs before submodule update and submodule foreach, in
\* that order, have.
C16_ForeachReachesEveryDepth ==
    /\ pc = "checkout_version" =>
           /\ \A p \in SubPaths :
                  sInit[p] /\ ResetAndPulled(sHead[p], sBranch[p], sTip[p])
           /\ nest.init
    /\ (pc \in {"checkout_version", "pin"} \/ Succeeded) =>
           ResetAndPulled(nest.head, nest.branch, nTip)
    /\ \A i \in 1..Len(trace) :
           trace[i].cmd \in {"checkout_version", "pin"} =>
               \E j \in 1..(i - 1) :
                   /\ trace[j].cmd = "submodule_foreach"
                   /\ \E k \in 1..(j - 1) : trace[k].cmd = "submodule_update"

\* An invocation on an existing working copy has pinned the superproject
\* and both submodules, and the nested submodule is on its default branch,
\* away from the commit its parent records for it.
C16_Witness ==
    /\ Succeeded
    /\ existedAtStart
    /\ version # None
    /\ Len(Pins) = 2
    /\ nest.init
    /\ nest.head = nTip
    /\ nest.head # NestedGitlink(sHead[NestedParent])

\* The line a function of the installer writes when it is called.
Banner(fn) ==
    CASE fn = "public" -> "Running public installation"
      [] fn = "core" -> "Running core installation"
      [] fn = "infra" -> "Running 'infra.install'"

\* The function `fn` has been called.
Started(fn) ==
    \E i \in 1..Len(events) :
        events[i].type = "log" /\ events[i].text = Banner(fn)

\* The command started as event i exited non-zero.
FailedAt(i) == events[i].type = "exec" /\ events[i].exit # 0

Names(l, e) ==
    /\ l.type = "log"
    /\ l.text = "Running"
    /\ l.cmd = e.cmd
    /\ l.arg = e.arg
    /\ l.tag = e.tag
    /\ l.env = e.env
    /\ l.cwd = e.cwd

\* C15 as claimed.  Every external command the installer starts has its
\* log line, naming the command, written right before it starts.
C15_EveryCommandLogged ==
    \A i \in 1..Len(events) :
        events[i].type = "exec" => (i > 1 /\ Names(events[i - 1], events[i]))

\* C15 as amended.  Every external command run without skip_log has its log
\* line written right before it starts; the chpasswd of
\* _setup_root_password, run with skip_log, starts after the line "Setting
\* root password" and no line of the log names it.
C15_LoggedUnlessSkipLog ==
    \A i \in 1..Len(events) :
        events[i].type = "exec" =>
            /\ i > 1
            /\ IF events[i].cmd = "chpasswd"
               THEN /\ events[i - 1].type = "log"
                    /\ events[i - 1].text = "Setting root password"
                    /\ \A j \in 1..Len(events) : ~Names(events[j], events[i])
               ELSE Names(events[i - 1], events[i])

\* The command of _core_install, with env overrides and a working
\* directory, has been started after its log line.
C15_Witness ==
    \E i \in 2..Len(events) :
        /\ events[i].type = "exec"
        /\ events[i].env # <<>>
        /\ events[i].cwd # None
        /\ Names(events[i - 1], events[i])

\* C18.  The child of every command gets the process environment overlaid
\* by env: the keys of both, each key of env with the value of env, each
\* other key with the value of the process environment; with no env it gets
\* the process environment; and the process environment is, after the
\* call, what it was before.
C18_EnvOverlay ==
    \A i \in 1..Len(events) :
        events[i].type = "exec" =>
            LET e == events[i]
            IN  /\ e.env = <<>> => e.child = e.parent
                /\ e.env # <<>> =>
                       /\ DOMAIN e.child =
                              (DOMAIN e.parent) \cup (DOMAIN e.env[1])
                       /\ \A k \in DOMAIN e.env[1] : e.child[k] = e.env[1][k]
                       /\ \A k \in (DOMAIN e.parent) \ (DOMAIN e.env[1]) :
                              e.child[k] = e.parent[k]
                /\ environ = e.parent

\* A command was run with an env that overrides one variable of the
\* process environment and leaves another alone.
C18_Witness ==
    \E i \in 1..Len(events) :
        /\ events[i].type = "exec"
        /\ events[i].env = <<[PYTHONPATH |-> "src"]>>
        /\ events[i].parent = [PATH |-> "lib", PYTHONPATH |-> "lib"]
        /\ events[i].child = [PATH |-> "lib", PYTHONPATH |-> "src"]

\* ---- C17

\* The commands of _update_code (lines 703-719).
UpdateCmds ==
    {"reset_pull", "submodule_update", "submodule_foreach",
     "checkout_version", "pin"}

\* Invocation p has started the command cmd.
Issued(p, cmd) == \E i \in 1..Len(ctrace) : ctrace[i] = <<p, cmd>>

\* A command of _update_code of one invocation was started between two
\* commands of _update_code of the other.
Interleaved ==
    \E i, j, k \in 1..Len(ctrace) :
        /\ i < j /\ j < k
        /\ ctrace[i][1] = ctrace[k][1]
        /\ ctrace[j][1] # ctrace[i][1]
        /\ {ctrace[i][2], ctrace[j][2], ctrace[k][2]} \subseteq UpdateCmds

\* C17: no mutual exclusion on a target.  Whatever the other invocation is
\* doing on the same path, an invocation of _clone_repo that has not ended
\* can take its next step: no step of one waits for, or is refused
\* because of, the position of the other.  (So both may see the path absent
\* and both start a clone, and the commands of _update_code of the two
\* interleave on the one working copy: the witness.)
C17_NoMutualExclusion ==
    \A p \in DOMAIN procs : procs[p].pc # "done" => ENABLED ConcStep(p)

\* Both invocations saw the path absent, both started `git clone` into it,
\* and their _update_code commands interleaved on the working copy.
C17_Witness ==
    /\ procs # <<>>
    /\ \A p \in Procs : procs[p].sawAbsent /\ Issued(p, "clone")
    /\ Interleaved

\* ---- C19

\* C19: NFS path derivation.  For every name, common.export(name) is the
\* export template with the name substituted, common.path(name) the path
\* template with the name substituted, common.qrt(name) is
\* common.path(name)/"qrt" and common.secrets(name) is
\* common.qrt(name)/"secrets"; and what a member gives as its export, path,
\* qrt and secrets is what these four functions give for the member's name.
C19_NfsPaths ==
    LET n == lookup.name
        path == Normal(Substitute(PathTemplate, n))
        read == \/ lookup.who = "common"
                \/ \E i \in 1..Len(NfsMembers) : lookup.who = NfsMembers[i]
    IN  /\ read /\ lookup.fn = "export" =>
               lookup.value = Normal(Substitute(ExportTemplate, n))
        /\ read /\ lookup.fn = "path" => lookup.value = path
        /\ read /\ lookup.fn = "qrt" =>
               lookup.value = path \o <<"qrt">>
        /\ read /\ lookup.fn = "secrets" =>
               lookup.value = path \o <<"qrt", "secrets">>
        /\ \A i \in 1..Len(NfsMembers) :
               lookup.who = NfsMembers[i] =>
                   /\ n = MemberName(NfsMembers[i])
                   /\ lookup.value = Common(lookup.fn, n)

\* The secrets directory of a member has been read.
C19_Witness ==
    /\ lookup.who = "qrt_dataset"
    /\ lookup.fn = "secrets"
    /\ lookup.value = <<"mnt", "qrt-dataset", "qrt", "secrets">>

\* ---- C20

\* The names of the members the blocks are claimed to be for, in order.
ClaimedMembers ==
    <<<<"qrt-dataset">>, <<"qrt-dropbox">>, <<"qrt-images">>,
      <<"python-packages">>, <<"isos">>>>

\* C20: repr(PUBLIC_SETTINGS.storage) is the dir block, one nfs block for
\* each of qrt-dataset, qrt-dropbox, qrt-images, python-packages and isos in
\* that order, and the zfspool block, with an empty line between blocks;
\* every nfs block shows the member's name, path and export and the common
\* server, content and nodes.
C20_ReprBlocks ==
    lookup.fn = "repr" =>
        lookup.value =
            JoinNewline(<<DirRepr>>
                        \o [i \in 1..Len(ClaimedMembers) |->
                               NfsBlock(ClaimedMembers[i])]
                        \o <<ZfsRepr>>)

\* ---- C21

\* C21: STORAGE_CONFIG.nfs exposes derived paths: nfs.qrt is nfs.path/"qrt"
\* and nfs.secrets is nfs.path/"qrt"/"secrets"; and str(STORAGE_CONFIG) is
\* the dir, nfs and zfspool blocks in that order.
C21_StorageDerivedPaths ==
    /\ lookup.who = "STORAGE_CONFIG.nfs" /\ lookup.fn = "qrt" =>
           /\ lookup.err = "none"
           /\ lookup.value = StorageNfs.path \o <<"qrt">>
    /\ lookup.who = "STORAGE_CONFIG.nfs" /\ lookup.fn = "secrets" =>
           /\ lookup.err = "none"
           /\ lookup.value = StorageNfs.path \o <<"qrt", "secrets">>
    /\ lookup.who = "STORAGE_CONFIG" =>
           /\ Len(lookup.value) = 15
           /\ lookup.value[1][1] = "dir:"
           /\ lookup.value[5][1] = "nfs:"
           /\ lookup.value[12][1] = "zfspool:"

\* ---- C22

\* The labelled items of sv whose name resolves to the submodule path p.
PinsOf(sv, p) ==
    {i \in 1..Len(Labelled(sv)) : SubmodulePathsOf(Labelled(sv)[i][1]) = {p}}

\* Where a single uninterrupted successful _clone_repo(url, target,
\* version=v, submodule_versions=sv) on an absent target leaves the working
\* copy, the remotes being as they are: HEAD at the version (at the tip of
\* the default branch when none is given), a pinned submodule at its
\* version, every other submodule at the tip of its default branch.
Uninterrupted(v, sv) ==
    [head |-> IF v = None THEN rTip ELSE TagCommit(v),
     sHead |-> [p \in SubPaths |->
                  IF PinsOf(sv, p) = {} THEN sTip[p]
                  ELSE SubTagCommit(Labelled(sv)[CHOOSE i \in PinsOf(sv, p) :
                           \A j \in PinsOf(sv, p) : j <= i][2])]]

\* Errors of the arguments, which every invocation with them meets: a label
\* that is no ref, a name that is not the name of one submodule.
ArgumentErrors == {"UnknownRevision", "SubmoduleResolutionAmbiguous"}

C23_TargetIsCloneOfUrl ==
    (Succeeded /\ entry = "clone_repo") => origin = "url"

\* ---- C24

\* C24: flag serialization is lossless.  Parsing the flags that
\* curl_public_install produces yields settings equal to its arguments
\* (versions, mode, password, every boolean flag); and the command lines of
\* _core_install and _infra_install carry exactly the versions and the
\* boolean flags these were called with (_core_install: docker and
\* skip_dev, with the mode core-in-repo; _infra_install: all but docker).
C24_FlagsLossless ==
    LET a == lookup.name
    IN  /\ lookup.who = "curl_public_install" =>
               /\ lookup.err = "none"
               /\ lookup.value = a
        /\ lookup.who = "_core_install" =>
               /\ lookup.err = "none"
               /\ lookup.value = [a EXCEPT !.mode = "core-in-repo",
                                           !.on = @ \cap {"docker", "skip_dev"}]
        /\ lookup.who = "_infra_install" =>
               /\ lookup.err = "none"
               /\ lookup.value = [a EXCEPT !.mode = None, !.on = @ \ {"docker"}]

\* ---- C25

\* The lines of the log, in order.
LogOf == SelectSeq(events, LAMBDA e : e.type = "log")

\* The whole log of a run in mode "password".
PasswordModeLog ==
    <<LogLine("Running installer", None, None, "", <<>>, None),
      LogLine("'public' settings", None, "***", "", <<>>, None),
      LogLine("Setting root password", None, None, "", <<>>, None)>>

\* C25: the root password never reaches the log.  No line of the log shows
\* a value given to --password (the settings line shows "***", no line
\* names the chpasswd command), and the log of a run in mode "password" is
\* the same three lines whatever the password: two runs that differ in the
\* password only write the same log.
C25_PasswordNotLogged ==
    /\ \A i \in 1..Len(events) :
           events[i].type = "log" =>
               /\ events[i].arg \notin RootPasswords
               /\ events[i].cmd # "chpasswd"
    /\ (settings.mode = "password" /\ settings.password # None) =>
           /\ Len(LogOf) <= Len(PasswordModeLog)
           /\ LogOf = SubSeq(PasswordModeLog, 1, Len(LogOf))
           /\ ipc = "done" => LogOf = PasswordModeLog

\* The chpasswd command has been run with a password, and the run is over.
C25_Witness ==
    /\ ipc = "done"
    /\ settings.password \in RootPasswords
    /\ \E i \in 1..Len(events) :
           /\ events[i].type = "exec"
           /\ events[i].cmd = "chpasswd"
           /\ events[i].arg = settings.password
    /\ LogOf = PasswordModeLog

\* ---- C26

\* How many times `apt update` was run.
AptUpdates ==
    Cardinality({i \in 1..Len(host.ran) :
        host.ran[i].cmd \in {<<"apt", "update">>, <<"sudo", "apt", "update">>}})

\* The files the operation has removed.
SourcesRemoved == host.before \ host.sources

\* C26: when the pruning of the Proxmox sources has returned, neither
\* ceph.sources nor pve-enterprise.sources exists, whichever existed before,
\* and `apt update` was run exactly when at least one file was removed; for
\* each of the three implementations.
C26_SourcesPruned ==
    host.pc = "done" =>
        /\ host.sources \cap {"ceph", "pve-enterprise"} = {}
        /\ AptUpdates >= 1 <=> SourcesRemoved # {}

\* ---- C27

\* C27: the paths of encrypt.py and decrypt.py round-trip.  The output name
\* decrypt.py computes for the file encrypt.py writes for p is p, whether p
\* has no suffix, one or several; and decrypt.py skips, without raising,
\* every path whose last suffix is not ".enc", a path with no suffix
\* included.
C27_PathRoundTrip ==
    LET p == lookup.name.path
    IN  /\ lookup.who = "encrypt" =>
               /\ lookup.err = "none"
               /\ lookup.value = p
        /\ (lookup.who = "decrypt" /\ Suffix(p) # DotEnc) =>
               /\ lookup.err = "none"
               /\ lookup.value = <<>>

\* ---- C28

\* The calls that append: all but setup_ssh_keys in mode overwrite.
Appends(c) == c.op = "setup_ssh_keys" => c.arg[1] = "append"

\* C28: appending to an rc or key file is idempotent and never duplicates.
\* A call of _append_to_file (or _append_to_rc) leaves the file as it is
\* when the line is one of its lines, and otherwise adds the line as one
\* new last line, every line before it kept in order; after calls that only
\* append, on a file that was missing or had no line twice, no line occurs
\* twice; and setup_rc, or setup_ssh_keys in mode append, run a second time
\* changes nothing.
C28_AppendIdempotent ==
    LET h == host.hist
        lines(f) == IF f.exists THEN Lines(f.text) ELSE <<>>
    IN  /\ \A i \in 1..Len(h) :
               h[i].op \in {"_append_to_file", "_append_to_rc"} =>
                   IF \E k \in 1..Len(lines(h[i].before)) :
                          lines(h[i].before)[k] = h[i].arg
                   THEN h[i].after = h[i].before
                   ELSE lines(h[i].after) = Append(lines(h[i].before), h[i].arg)
        /\ (\A i \in 1..Len(h) : Appends(h[i])) =>
               DuplicateFree(lines(host.file))
        /\ \A i \in 2..Len(h) :
               (Appends(h[i]) /\ h[i].op \in {"setup_rc", "setup_ssh_keys"}
                   /\ h[i - 1].op = h[i].op /\ h[i - 1].arg = h[i].arg) =>
                   h[i].after = h[i].before

\* ---- C29

\* The install command of a tool has been run.
InstallRan(tool) ==
    \E i \in 1..Len(host.ran) :
        host.ran[i].cmd \in {<<"apt", "install", "-y", tool>>,
                             <<"sudo", "apt", "install", "-y", tool>>}

\* C29: in setup-vm-using-python.py each requested tool that is missing
\* gets installed.  When main has returned, each of git, just and vim that
\* was asked for is installed, its own install command having been run if
\* it was missing when its turn came; and no install command was run for a
\* tool that was not asked for.
C29_RequestedToolsInstalled ==
    host.pc = "done" =>
        \A t \in VmTools :
            /\ t \in host.settings.on =>
                   /\ t \in host.installed
                   /\ t \notin host.at[t] => InstallRan(t)
            /\ t \notin host.settings.on => ~InstallRan(t)

\* ---- C30

\* C30: the two subnet resolvers agree.  For every value SUBNET is set to,
\* _get_subnet_from_ip returns a subnet exactly when get_subnet does, and
\* the same one; "qrt", "main" and "test" are accepted by both, every other
\* value is rejected by both with an error.
C30_ResolversAgree ==
    (lookup.who = "subnet" /\ lookup.name.env # Unset) =>
        LET a == lookup.value.install
            b == lookup.value.utilities
            member == lookup.name.env \in {"qrt", "main", "test"}
        IN  /\ a.err = "none" <=> b.err = "none"
            /\ a.value = b.value
            /\ member => a.err = "none" /\ b.err = "none"
            /\ ~member => a.err # "none" /\ b.err # "none"

====
